---- MODULE Spec2Model ----
(***************************************************************************)
(* Model of the Gama interpreter (src/src/symtab.c, src/src/main.c): the   *)
(* token cursor, the symbol table, the expression evaluator and the        *)
(* recursive-descent statement interpreter, with the C call stack made     *)
(* explicit.  cur_token is 0-based as in the C code: the token under the   *)
(* cursor is tokens[cur_token + 1].                                        *)
(***************************************************************************)
EXTENDS Integers, Sequences, FiniteSets, TLC

VARIABLES tokens, cur_token, symtab, out, input, stack, status, err, log, prog

vars == <<tokens, cur_token, symtab, out, input, stack, status, err, log, prog>>

(***************************************************************************)
(* Bounds of the model.                                                    *)
(***************************************************************************)
\* largest initial value of the loop counter / selector in the program families
MaxN == 3
\* largest number of Caso arms in the generated Switch programs
MaxArms == 2
\* how many positions past the end of the token array a runaway skip loop is followed
MaxOverrun == 2
\* cap on the number of logged events of one run
MaxLog == 60

(***************************************************************************)
(* Program constants.                                                      *)
(***************************************************************************)
MAX_VARS == 256

(***************************************************************************)
(* Tokens.  A token is [type, lexeme]; a lexeme is a sequence of           *)
(* one-character strings.                                                  *)
(***************************************************************************)
num_tokens == Len(tokens)

lookahead(cur) ==
    IF cur >= 0 /\ cur < num_tokens THEN tokens[cur + 1].type ELSE "TOK_EOF"

lexeme(cur) ==
    IF cur >= 0 /\ cur < num_tokens THEN tokens[cur + 1].lexeme ELSE <<>>

DigitVal(c) ==
    CASE c = "0" -> 0 [] c = "1" -> 1 [] c = "2" -> 2 [] c = "3" -> 3
      [] c = "4" -> 4 [] c = "5" -> 5 [] c = "6" -> 6 [] c = "7" -> 7
      [] c = "8" -> 8 [] c = "9" -> 9 [] OTHER -> -1

RECURSIVE atoi_from(_, _, _)
atoi_from(s, i, acc) ==
    IF i > Len(s) \/ DigitVal(s[i]) < 0 THEN acc
    ELSE atoi_from(s, i + 1, acc * 10 + DigitVal(s[i]))

\* atoi on a lexeme of digits (no sign or blanks ever reach it from the lexer)
atoi(s) == atoi_from(s, 1, 0)

DigitChar(d) ==
    CASE d = 0 -> "0" [] d = 1 -> "1" [] d = 2 -> "2" [] d = 3 -> "3"
      [] d = 4 -> "4" [] d = 5 -> "5" [] d = 6 -> "6" [] d = 7 -> "7"
      [] d = 8 -> "8" [] OTHER -> "9"

RECURSIVE utoa(_)
utoa(n) == IF n < 10 THEN <<DigitChar(n)>> ELSE Append(utoa(n \div 10), DigitChar(n % 10))

\* the line printf("%d\n", v) writes
fmt_d(v) == IF v < 0 THEN <<"-">> \o utoa(-v) ELSE utoa(v)

\* C integer division truncates toward zero
c_div(a, b) ==
    LET aa == IF a < 0 THEN -a ELSE a
        bb == IF b < 0 THEN -b ELSE b
        q  == aa \div bb
    IN IF (a < 0) = (b < 0) THEN q ELSE -q

(***************************************************************************)
(* Symbol table: a sequence of [name, value, is_defined]; index i of the C *)
(* array is element i + 1.  Operations return [tab, idx, val, err].        *)
(***************************************************************************)
lookup_symbol(tab, name) ==
    IF \E i \in 1..Len(tab) : tab[i].name = name
    THEN (CHOOSE i \in 1..Len(tab) :
              tab[i].name = name /\ \A j \in 1..(i - 1) : tab[j].name # name) - 1
    ELSE -1

add_symbol(tab, name) ==
    IF Len(tab) >= MAX_VARS THEN [tab |-> tab, idx |-> -1, err |-> "capacity"]
    ELSE IF lookup_symbol(tab, name) # -1
         THEN [tab |-> tab, idx |-> lookup_symbol(tab, name), err |-> "none"]
         ELSE [tab |-> Append(tab, [name |-> name, value |-> 0, is_defined |-> 0]),
               idx |-> Len(tab), err |-> "none"]

\* the value stored without is_defined = 1
set_symbol_value_unmarked(tab, name, val) ==
    LET idx0 == lookup_symbol(tab, name)
        a    == IF idx0 < 0 THEN add_symbol(tab, name)
                ELSE [tab |-> tab, idx |-> idx0, err |-> "none"]
    IN IF a.err # "none" THEN a
       ELSE [tab |-> [a.tab EXCEPT ![a.idx + 1].value = val], idx |-> a.idx, err |-> "none"]

set_symbol_value(tab, name, val) ==
    LET idx0 == lookup_symbol(tab, name)
        a    == IF idx0 < 0 THEN add_symbol(tab, name)
                ELSE [tab |-> tab, idx |-> idx0, err |-> "none"]
    IN IF a.err # "none" THEN a
       ELSE [tab |-> [a.tab EXCEPT ![a.idx + 1].value = val,
                                   ![a.idx + 1].is_defined = 1],
             idx |-> a.idx, err |-> "none"]

\* the value read without the test of is_defined
get_symbol_value_unchecked(tab, name) ==
    LET idx == lookup_symbol(tab, name)
    IN IF idx < 0 THEN [val |-> 0, err |-> "undeclared"]
       ELSE [val |-> tab[idx + 1].value, err |-> "none"]

get_symbol_value(tab, name) ==
    LET idx == lookup_symbol(tab, name)
    IN IF idx < 0 THEN [val |-> 0, err |-> "undeclared"]
       ELSE IF tab[idx + 1].is_defined = 0 THEN [val |-> 0, err |-> "uninit"]
       ELSE [val |-> tab[idx + 1].value, err |-> "none"]

(***************************************************************************)
(* Cursor primitives on a parse state p = [cur, err, ...].  A fatal error  *)
(* (exit(1)) is carried in err; every later step of the same C function is *)
(* then a no-op.                                                           *)
(***************************************************************************)
match(p, expected) ==
    IF p.err # "none" THEN p
    ELSE IF lookahead(p.cur) = expected THEN [p EXCEPT !.cur = @ + 1]
    ELSE [p EXCEPT !.err = "syntax"]

advance(p) == IF p.err # "none" THEN p ELSE [p EXCEPT !.cur = @ + 1]

(***************************************************************************)
(* Expression evaluator.  Each function returns [val, cur, err].           *)
(***************************************************************************)
RelOps == {"TOK_EQ", "TOK_NEQ", "TOK_LT", "TOK_GT", "TOK_LE", "TOK_GE"}

B2I(b) == IF b THEN 1 ELSE 0

RECURSIVE parse_rel_expr(_, _), rel_loop(_, _, _), parse_add_expr(_, _), add_loop(_, _, _)
RECURSIVE parse_mul_expr(_, _), mul_loop(_, _, _), parse_unary_expr(_, _), parse_primary(_, _)

Val(v, cur) == [val |-> v, cur |-> cur, err |-> "none"]

parse_expr(cur, tab) == parse_rel_expr(cur, tab)

\* match(TOK_RPAREN) after the inner expression e of '(' <expr> ')'
primary_close(e) ==
    IF e.err # "none" THEN e
    ELSE IF lookahead(e.cur) = "TOK_RPAREN" THEN [e EXCEPT !.cur = @ + 1]
    ELSE [e EXCEPT !.err = "syntax"]

\* the value g that get_symbol_value returned; cur_token++ has been done before the call
primary_ident(g, cur) == [val |-> g.val, cur |-> cur + 1, err |-> g.err]

parse_primary(cur, tab) ==
    IF lookahead(cur) = "TOK_LPAREN" THEN primary_close(parse_expr(cur + 1, tab))
    ELSE IF lookahead(cur) = "TOK_NUM" THEN Val(atoi(lexeme(cur)), cur + 1)
    ELSE IF lookahead(cur) = "TOK_IDENT" THEN primary_ident(get_symbol_value(tab, lexeme(cur)), cur)
    ELSE [val |-> 0, cur |-> cur, err |-> "syntax"]

negate(r) == IF r.err # "none" THEN r ELSE [r EXCEPT !.val = -(r.val)]

parse_unary_expr(cur, tab) ==
    IF lookahead(cur) = "TOK_MINUS" THEN negate(parse_primary(cur + 1, tab))
    ELSE parse_primary(cur, tab)

\* the operator applied without the test for a zero divisor
mul_apply_unchecked(t, left, r) ==
    IF r.err # "none" THEN r
    ELSE IF t = "TOK_MULT" THEN Val(left * r.val, r.cur)
    ELSE Val(IF r.val = 0 THEN 0 ELSE c_div(left, r.val), r.cur)

\* left * right, or left / right with the test for right == 0 (lines 331-339);
\* r is the right operand as parsed
mul_apply(t, left, r) ==
    IF r.err # "none" THEN r
    ELSE IF t = "TOK_MULT" THEN Val(left * r.val, r.cur)
    ELSE IF r.val = 0 THEN [val |-> 0, cur |-> r.cur, err |-> "divzero"]
    ELSE Val(c_div(left, r.val), r.cur)

\* the rest of a while (1) loop once one operator has been applied with result l
mul_next(l, tab) == IF l.err # "none" THEN l ELSE mul_loop(l.val, l.cur, tab)

mul_loop(left, cur, tab) ==
    IF lookahead(cur) = "TOK_MULT" \/ lookahead(cur) = "TOK_DIV"
    THEN mul_next(mul_apply(lookahead(cur), left, parse_unary_expr(cur + 1, tab)), tab)
    ELSE Val(left, cur)

parse_mul_expr(cur, tab) == mul_next(parse_unary_expr(cur, tab), tab)

\* the additive operator applied with its operands exchanged
add_apply_swapped(t, left, r) ==
    IF r.err # "none" THEN r
    ELSE IF t = "TOK_PLUS" THEN Val(r.val + left, r.cur)
    ELSE Val(r.val - left, r.cur)

add_apply(t, left, r) ==
    IF r.err # "none" THEN r
    ELSE IF t = "TOK_PLUS" THEN Val(left + r.val, r.cur)
    ELSE Val(left - r.val, r.cur)

add_next(l, tab) == IF l.err # "none" THEN l ELSE add_loop(l.val, l.cur, tab)

add_loop(left, cur, tab) ==
    IF lookahead(cur) = "TOK_PLUS" \/ lookahead(cur) = "TOK_MINUS"
    THEN add_next(add_apply(lookahead(cur), left, parse_mul_expr(cur + 1, tab)), tab)
    ELSE Val(left, cur)

parse_add_expr(cur, tab) == add_next(parse_mul_expr(cur, tab), tab)

rel_apply(t, left, r) ==
    IF r.err # "none" THEN r
    ELSE Val(CASE t = "TOK_EQ"  -> B2I(left = r.val)
               [] t = "TOK_NEQ" -> B2I(left # r.val)
               [] t = "TOK_LT"  -> B2I(left < r.val)
               [] t = "TOK_GT"  -> B2I(left > r.val)
               [] t = "TOK_LE"  -> B2I(left <= r.val)
               [] OTHER         -> B2I(left >= r.val),
             r.cur)

rel_next(l, tab) == IF l.err # "none" THEN l ELSE rel_loop(l.val, l.cur, tab)

rel_loop(left, cur, tab) ==
    IF lookahead(cur) \in RelOps
    THEN rel_next(rel_apply(lookahead(cur), left, parse_add_expr(cur + 1, tab)), tab)
    ELSE Val(left, cur)

parse_rel_expr(cur, tab) == rel_next(parse_add_expr(cur, tab), tab)

(***************************************************************************)
(* Results of statement functions: the cursor, the symbol table, the error *)
(* (if any), the lines written to stdout, the unread stdin values and the  *)
(* events to record.  An event is [e, by, at, v]:                          *)
(*   "stmt" : parse_stmt was entered at token at and dispatched to by      *)
(*   "expr" : parse_expr was called by function by at token at, value v    *)
(*   "ret"  : function by, entered at token at, returned with cursor v     *)
(*   "arm"  : parse_switch_stmt executed (v = 1) or skipped (v = 0) the    *)
(*            arm (by = "case" or "default") whose statement starts at at  *)
(***************************************************************************)
Ev(e, by, at, v) == [e |-> e, by |-> by, at |-> at, v |-> v]

Res(cur, tab, e, outs, inp, ev) ==
    [cur |-> cur, tab |-> tab, err |-> e, outs |-> outs, inp |-> inp, ev |-> ev, val |-> 0]

\* the current state as a result with nothing done yet
Here == Res(cur_token, symtab, "none", <<>>, input, <<>>)

TypeToks == {"TOK_INT", "TOK_CHAR", "TOK_FLOAT"}

RECURSIVE var_list(_), var_list_tail(_)

\* the symbol left as add_symbol returned it
keep_defined(tab, idx) == tab

\* symtab[idx].is_defined = 0 (line 425)
mark_undefined(tab, idx) == [tab EXCEPT ![idx + 1].is_defined = 0]

\* one <var_decl> of parse_decl_stmt's while (1) loop, r.cur at the identifier
var_list(r) ==
    IF lookahead(r.cur) = "TOK_IDENT" THEN
        LET varname == lexeme(r.cur)
            a == add_symbol(r.tab, varname)
        IN IF a.err # "none" THEN [r EXCEPT !.err = a.err]
           ELSE LET tab1 == mark_undefined(a.tab, a.idx)
                    r1   == [r EXCEPT !.tab = tab1, !.cur = @ + 1]
                IN IF lookahead(r1.cur) = "TOK_ASSIGN" THEN
                       LET x == parse_expr(r1.cur + 1, tab1)
                       IN IF x.err # "none"
                          THEN [r1 EXCEPT !.cur = x.cur, !.err = x.err]
                          ELSE LET s == set_symbol_value(tab1, varname, x.val)
                               IN var_list_tail(
                                    [r1 EXCEPT !.cur = x.cur, !.tab = s.tab, !.err = s.err,
                                               !.ev = Append(@, Ev("expr", "decl", r1.cur + 1, x.val))])
                   ELSE var_list_tail(r1)
    ELSE [r EXCEPT !.err = "syntax"]

var_list_tail(r) ==
    IF r.err # "none" THEN r
    ELSE IF lookahead(r.cur) = "TOK_COMMA" THEN var_list(advance(r))
    ELSE match(r, "TOK_SEMI")

parse_decl_stmt(r) ==
    IF lookahead(r.cur) \in TypeToks THEN var_list(advance(r))
    ELSE [r EXCEPT !.err = "syntax"]

\* the body of parse_print_stmt after the opening delimiter, closed by closer
print_body(r, closer) ==
    IF r.err # "none" THEN r
    ELSE IF lookahead(r.cur) = "TOK_STRING" THEN
        LET s  == lexeme(r.cur)
            r1 == match(match(advance(r), closer), "TOK_SEMI")
        IN IF r1.err # "none" THEN r1 ELSE [r1 EXCEPT !.outs = Append(@, s)]
    ELSE
        LET x == parse_expr(r.cur, r.tab)
        IN IF x.err # "none" THEN [r EXCEPT !.cur = x.cur, !.err = x.err]
           ELSE LET r1 == match(match([r EXCEPT !.cur = x.cur,
                                                !.ev = Append(@, Ev("expr", "print", r.cur, x.val))],
                                      closer), "TOK_SEMI")
                IN IF r1.err # "none" THEN r1 ELSE [r1 EXCEPT !.outs = Append(@, fmt_d(x.val))]

parse_print_stmt(r) ==
    LET r1 == match(r, "TOK_PRINT")
    IN IF r1.err # "none" THEN r1
       ELSE IF lookahead(r1.cur) = "TOK_LPAREN" THEN print_body(advance(r1), "TOK_RPAREN")
       ELSE IF lookahead(r1.cur) = "TOK_LBRACE" THEN print_body(advance(r1), "TOK_RBRACE")
       ELSE [r1 EXCEPT !.err = "syntax"]

parse_sum_stmt(r) ==
    LET r1 == match(r, "TOK_SUM")
    IN IF r1.err # "none" THEN r1
       ELSE LET x == parse_expr(r1.cur, r1.tab)
            IN IF x.err # "none" THEN [r1 EXCEPT !.cur = x.cur, !.err = x.err]
               ELSE LET r2 == match([r1 EXCEPT !.cur = x.cur,
                                               !.ev = Append(@, Ev("expr", "sum", r1.cur, x.val))],
                                    "TOK_SEMI")
                    IN IF r2.err # "none" THEN r2 ELSE [r2 EXCEPT !.outs = Append(@, fmt_d(x.val))]

\* expect_ident() on a parse state
expect_ident(r) ==
    IF r.err # "none" THEN r
    ELSE IF lookahead(r.cur) = "TOK_IDENT" THEN advance(r)
    ELSE [r EXCEPT !.err = "syntax"]

\* Leer that reads its value as soon as the name is known, before ')' and ';'
parse_read_stmt_early(r) ==
    LET r1 == expect_ident(match(match(r, "TOK_READ"), "TOK_LPAREN"))
        varname == lexeme(r1.cur - 1)
    IN IF r1.err # "none" THEN r1
       ELSE IF r1.inp = <<>> \/ ~Head(r1.inp).ok THEN [r1 EXCEPT !.err = "input"]
       ELSE LET s == set_symbol_value(r1.tab, varname, Head(r1.inp).n)
            IN match(match([r1 EXCEPT !.tab = s.tab, !.err = s.err, !.inp = Tail(@)],
                           "TOK_RPAREN"), "TOK_SEMI")

\* a stdin item is [ok, n]: an integer n, or (ok = FALSE) text scanf("%d") cannot convert
parse_read_stmt(r) ==
    LET r1 == expect_ident(match(match(r, "TOK_READ"), "TOK_LPAREN"))
        varname == lexeme(r1.cur - 1)
        r2 == match(match(r1, "TOK_RPAREN"), "TOK_SEMI")
    IN IF r2.err # "none" THEN r2
       ELSE IF r2.inp = <<>> \/ ~Head(r2.inp).ok THEN [r2 EXCEPT !.err = "input"]
       ELSE LET s == set_symbol_value(r2.tab, varname, Head(r2.inp).n)
            IN [r2 EXCEPT !.tab = s.tab, !.err = s.err, !.inp = Tail(@)]

parse_assign_stmt(r) ==
    LET r1 == match(expect_ident(r), "TOK_ASSIGN")
        varname == lexeme(r.cur)
    IN IF r1.err # "none" THEN r1
       ELSE LET x == parse_expr(r1.cur, r1.tab)
            IN IF x.err # "none" THEN [r1 EXCEPT !.cur = x.cur, !.err = x.err]
               ELSE LET r2 == match([r1 EXCEPT !.cur = x.cur,
                                               !.ev = Append(@, Ev("expr", "assign", r1.cur, x.val))],
                                    "TOK_SEMI")
                    IN IF r2.err # "none" THEN r2
                       ELSE LET s == set_symbol_value(r2.tab, varname, x.val)
                            IN [r2 EXCEPT !.tab = s.tab, !.err = s.err]

(***************************************************************************)
(* The call stack.  One frame per active C function; pc is the place in    *)
(* the function at which it resumes when it is on top of the stack.        *)
(*   at        cursor at entry                                             *)
(*   cond_pos, body_pos, saved   locals of parse_while_stmt                *)
(*   val, done                   locals of parse_switch_stmt               *)
(*   branch    which branch parse_if_stmt is discarding ("then"/"else")    *)
(*   nivel     nivel_p of a discard loop of parse_if_stmt, p of            *)
(*             skip_simple_stmt                                            *)
(*   stop      the token types that end a discard loop at nivel 0          *)
(*   tail      the tokens parse_if_stmt matches after a discard loop       *)
(*   nexec     (history) how many Caso arms this parse_switch_stmt has     *)
(*             executed                                                    *)
(***************************************************************************)
Frame(fn, at) ==
    [fn |-> fn, pc |-> "start", at |-> at, cond_pos |-> -1, body_pos |-> -1,
     saved |-> -1, val |-> 0, done |-> 0, branch |-> "", nivel |-> 0,
     stop |-> {}, tail |-> <<>>, nexec |-> 0]

Top == stack[Len(stack)]
Pop == SubSeq(stack, 1, Len(stack) - 1)
\* the stack with the top frame replaced by f
Set(f) == Append(Pop, f)
\* the stack with the top frame replaced by f and g called from it
Call(f, g) == Append(Append(Pop, f), g)

Running == status = "running" /\ stack # <<>> /\ Len(log) < MaxLog

\* a function's step taken wherever the function is
At_any_pc(fn, pc) == Running /\ Top.fn = fn

At(fn, pc) == Running /\ Top.fn = fn /\ Top.pc = pc

\* the step's outcome r becomes the next state; exit(1) freezes the rest
Commit(r, newstack) ==
    /\ cur_token' = r.cur
    /\ symtab' = r.tab
    /\ out' = out \o r.outs
    /\ input' = r.inp
    /\ log' = log \o r.ev
    /\ IF r.err # "none"
       THEN status' = "error" /\ err' = r.err /\ stack' = stack
       ELSE status' = status /\ err' = err /\ stack' = newstack
    /\ UNCHANGED <<tokens, prog>>

Logged(r, ev) == IF r.err # "none" THEN r ELSE [r EXCEPT !.ev = Append(@, ev)]

(***************************************************************************)
(* main and parse_program                                                  *)
(***************************************************************************)
OKLine == <<"O", "K">>

\* main after parse_program() has returned: printf("OK\n"); return 0
Main ==
    /\ At("main", "start")
    /\ out' = Append(out, OKLine)
    /\ status' = "ok"
    /\ stack' = <<>>
    /\ UNCHANGED <<tokens, cur_token, symtab, input, err, log, prog>>

ParseProgram ==
    /\ At("program", "start")
    /\ IF lookahead(cur_token) # "TOK_EOF"
       THEN Commit(Here, Append(stack, Frame("stmt", cur_token)))
       ELSE Commit(match(Here, "TOK_EOF"), Pop)

(***************************************************************************)
(* parse_stmt and the statements without sub-statements                    *)
(***************************************************************************)
stmt_kind(t) ==
    CASE t \in TypeToks    -> "decl"
      [] t = "TOK_PRINT"   -> "print"
      [] t = "TOK_SUM"     -> "sum"
      [] t = "TOK_READ"    -> "read"
      [] t = "TOK_IDENT"   -> "assign"
      [] t = "TOK_IF"      -> "if"
      [] t = "TOK_WHILE"   -> "while"
      [] t = "TOK_SWITCH"  -> "switch"
      [] t = "TOK_LBRACE"  -> "block"
      [] OTHER             -> "none"

ParseStmt ==
    /\ At("stmt", "start")
    /\ LET k == stmt_kind(lookahead(cur_token))
       IN IF k = "none"
          THEN Commit([Here EXCEPT !.err = "syntax"], stack)
          ELSE Commit(Logged(Here, Ev("stmt", k, cur_token, 0)),
                      Set(Frame(k, cur_token)))

ParseDeclStmt == At("decl", "start") /\ Commit(parse_decl_stmt(Here), Pop)

ParsePrintStmt == At("print", "start") /\ Commit(parse_print_stmt(Here), Pop)

ParseSumStmt == At("sum", "start") /\ Commit(parse_sum_stmt(Here), Pop)

ParseReadStmt == At("read", "start") /\ Commit(parse_read_stmt(Here), Pop)

ParseAssignStmt == At("assign", "start") /\ Commit(parse_assign_stmt(Here), Pop)

(***************************************************************************)
(* parse_block_stmt                                                        *)
(***************************************************************************)
ParseBlockStmt ==
    /\ At("block", "start")
    /\ Commit(match(Here, "TOK_LBRACE"), Set([Top EXCEPT !.pc = "loop"]))

BlockLoop ==
    /\ At("block", "loop")
    /\ IF lookahead(cur_token) # "TOK_RBRACE" /\ lookahead(cur_token) # "TOK_EOF"
       THEN Commit(Here, Append(stack, Frame("stmt", cur_token)))
       ELSE LET r == match(Here, "TOK_RBRACE")
            IN Commit(Logged(r, Ev("ret", "block", Top.at, r.cur)), Pop)

(***************************************************************************)
(* parse_while_stmt                                                        *)
(***************************************************************************)
\* int v = parse_expr() called by function by; the value is left in r.val
expr(r, by) ==
    IF r.err # "none" THEN r
    ELSE LET x == parse_expr(r.cur, r.tab)
         IN IF x.err # "none" THEN [r EXCEPT !.cur = x.cur, !.err = x.err]
            ELSE [r EXCEPT !.cur = x.cur, !.val = x.val,
                           !.ev = Append(@, Ev("expr", by, r.cur, x.val))]

\* cur_token = pos - 1
rewind_short(r, pos) == IF r.err # "none" THEN r ELSE [r EXCEPT !.cur = pos - 1]

\* cur_token = pos
rewind(r, pos) == IF r.err # "none" THEN r ELSE [r EXCEPT !.cur = pos]

\* lines 880-891 and 906-909: the first evaluation of the condition and the
\* first parse_stmt() of the body
WhileStart ==
    /\ At("while", "start")
    /\ LET r0 == match(match(Here, "TOK_WHILE"), "TOK_LPAREN")
           r  == match(expr(r0, "while"), "TOK_RPAREN")
       IN IF r.val # 0
          THEN Commit(r, Call([Top EXCEPT !.pc = "body", !.cond_pos = r0.cur,
                                          !.body_pos = r.cur],
                              Frame("stmt", r.cur)))
          ELSE Commit(r, Call([Top EXCEPT !.pc = "skip1", !.cond_pos = r0.cur,
                                          !.saved = r.cur],
                              Frame("stmt", r.cur)))

\* lines 892-905: one turn of while (1) after the body has returned
WhileRepeat ==
    /\ At("while", "body")
    /\ LET x == expr(rewind(Here, Top.cond_pos), "while")
       IN IF x.err = "none" /\ x.val = 0
          THEN LET r == match(x, "TOK_RPAREN")
               IN Commit(Logged(r, Ev("ret", "while", Top.at, r.cur)), Pop)
          ELSE Commit(rewind(match(x, "TOK_RPAREN"), Top.body_pos),
                      Append(stack, Frame("stmt", Top.body_pos)))

\* lines 910-911: cur_token = saved; parse_stmt()
WhileRewind ==
    /\ At("while", "skip1")
    /\ Commit(rewind(Here, Top.saved),
              Call([Top EXCEPT !.pc = "skip2"], Frame("stmt", Top.saved)))

WhileEnd ==
    /\ At("while", "skip2")
    /\ Commit(Logged(Here, Ev("ret", "while0", Top.at, cur_token)), Pop)

(***************************************************************************)
(* skip_simple_stmt and parse_switch_stmt                                  *)
(***************************************************************************)
RECURSIVE brace_loop(_, _)
\* do { ... cur_token++; } while (n > 0 && lookahead() != TOK_EOF): the cursor it ends at
brace_loop(cur, n) ==
    LET n1 == IF lookahead(cur) = "TOK_LBRACE" THEN n + 1
              ELSE IF lookahead(cur) = "TOK_RBRACE" THEN n - 1 ELSE n
    IN IF n1 > 0 /\ lookahead(cur + 1) # "TOK_EOF" THEN brace_loop(cur + 1, n1)
       ELSE cur + 1

paren_level(cur, n) ==
    IF lookahead(cur) = "TOK_LPAREN" THEN n + 1
    ELSE IF lookahead(cur) = "TOK_RPAREN" THEN n - 1 ELSE n

\* one turn of the do-while of lines 925-929, and line 930 when it ends
SkipSimpleTurn ==
    LET p  == paren_level(cur_token, Top.nivel)
        c1 == cur_token + 1
    IN IF p > 0 \/ (lookahead(c1) # "TOK_SEMI" /\ lookahead(c1) # "TOK_EOF")
       THEN Commit(rewind(Here, c1), Set([Top EXCEPT !.pc = "loop", !.nivel = p]))
       ELSE Commit(rewind(Here, IF lookahead(c1) = "TOK_SEMI" THEN c1 + 1 ELSE c1), Pop)

SkipSimpleStmt ==
    /\ At("skip_simple", "start")
    /\ IF lookahead(cur_token) = "TOK_LBRACE"
       THEN Commit(rewind(Here, brace_loop(cur_token, 0)), Pop)
       ELSE SkipSimpleTurn

SkipSimpleStep ==
    /\ At("skip_simple", "loop")
    /\ cur_token < num_tokens + MaxOverrun
    /\ SkipSimpleTurn

SwitchStart ==
    /\ At("switch", "start")
    /\ LET r == match(match(expr(match(match(Here, "TOK_SWITCH"), "TOK_LPAREN"), "switch"),
                            "TOK_RPAREN"), "TOK_LBRACE")
       IN Commit(r, Set([Top EXCEPT !.pc = "arms", !.val = r.val, !.done = 0]))

\* the test of an arm without the done flag
arm_selected_ignoring_done(done, val, cval) == val = cval

\* the test of an arm: if (!done && val == cval)
arm_selected(done, val, cval) == done = 0 /\ val = cval

\* lines 941-955: one Caso arm up to the call that executes or skips it
\* (done = 1 is recorded with the call; nothing reads it before the call returns)
SwitchArm ==
    /\ At("switch", "arms")
    /\ lookahead(cur_token) = "TOK_CASE"
    /\ LET r1 == match(Here, "TOK_CASE")
       IN IF lookahead(r1.cur) # "TOK_NUM"
          THEN Commit([r1 EXCEPT !.err = "syntax"], stack)
          ELSE LET cval == atoi(lexeme(r1.cur))
                   r2   == match(advance(r1), "TOK_COLON")
               IN IF arm_selected(Top.done, Top.val, cval)
                  THEN Commit(Logged(r2, Ev("arm", "case", r2.cur, 1)),
                              Call([Top EXCEPT !.pc = "after_arm", !.done = 1, !.nexec = @ + 1],
                                   Frame("stmt", r2.cur)))
                  ELSE Commit(Logged(r2, Ev("arm", "case", r2.cur, 0)),
                              Call([Top EXCEPT !.pc = "after_arm"],
                                   Frame("skip_simple", r2.cur)))

\* lines 956-960: Romper after the arm leaves the loop
SwitchAfterArm ==
    /\ At("switch", "after_arm")
    /\ IF lookahead(cur_token) = "TOK_BREAK"
       THEN Commit(match(match(Here, "TOK_BREAK"), "TOK_SEMI"),
                   Set([Top EXCEPT !.pc = "default"]))
       ELSE Commit(Here, Set([Top EXCEPT !.pc = "arms"]))

\* lines 962-968 when the Caso loop has ended
SwitchDefault ==
    /\ \/ At("switch", "default")
       \/ At("switch", "arms") /\ lookahead(cur_token) # "TOK_CASE"
    /\ IF lookahead(cur_token) = "TOK_DEFAULT"
       THEN LET r == match(match(Here, "TOK_DEFAULT"), "TOK_COLON")
            IN IF Top.done = 0
               THEN Commit(Logged(r, Ev("arm", "default", r.cur, 1)),
                           Call([Top EXCEPT !.pc = "close"], Frame("stmt", r.cur)))
               ELSE Commit(Logged(r, Ev("arm", "default", r.cur, 0)),
                           Call([Top EXCEPT !.pc = "close"], Frame("skip_simple", r.cur)))
       ELSE LET r == match(Here, "TOK_RBRACE")
            IN Commit(Logged(r, Ev("ret", "switch", Top.at, r.cur)), Pop)

\* line 968 after the Predeterminado arm
SwitchClose ==
    /\ At("switch", "close")
    /\ LET r == match(Here, "TOK_RBRACE")
       IN Commit(Logged(r, Ev("ret", "switch", Top.at, r.cur)), Pop)

(***************************************************************************)
(* parse_if_stmt.  The code that discards a branch is written twice, once  *)
(* for the Sino branch (lines 632-745) and once for the THEN branch (lines *)
(* 752-863), token for token the same; the frame's branch field tells      *)
(* which copy is running.                                                  *)
(***************************************************************************)
Scan(at, stopset) == [Frame("scan", at) EXCEPT !.stop = stopset]

\* one turn of do { nivel_p...; cur_token++; } while (!(nivel_p == 0 && lookahead() in stop))
\* (lines 641-646, 667-671, 688-692, 700-704, 713-717 and their THEN copies)
ScanStep ==
    /\ At("scan", "start")
    /\ cur_token < num_tokens + MaxOverrun
    /\ LET n  == paren_level(cur_token, Top.nivel)
           c1 == cur_token + 1
       IN IF n = 0 /\ lookahead(c1) \in Top.stop
          THEN Commit(rewind(Here, c1), Pop)
          ELSE Commit(rewind(Here, c1), Set([Top EXCEPT !.nivel = n]))

\* lines 620-627 and 748
IfCond ==
    /\ At("if", "start")
    /\ LET r == match(expr(match(match(Here, "TOK_IF"), "TOK_LPAREN"), "if"), "TOK_RPAREN")
       IN IF r.val # 0
          THEN Commit(r, Call([Top EXCEPT !.pc = "then_done"], Frame("stmt", r.cur)))
          ELSE Commit(r, Set([Top EXCEPT !.pc = "skip", !.branch = "then"]))

\* lines 629-630 after the THEN statement has been executed
IfAfterThen ==
    /\ At("if", "then_done")
    /\ IF lookahead(cur_token) = "TOK_ELSE"
       THEN Commit(match(Here, "TOK_ELSE"), Set([Top EXCEPT !.pc = "skip", !.branch = "else"]))
       ELSE Commit(Logged(Here, Ev("ret", "if", Top.at, cur_token)), Pop)

\* the tokens an Imprimir is discarded by before its discard loop (lines 664-665)
skip_print_open(r) == match(match(r, "TOK_PRINT"), "TOK_LPAREN")

\* the first tokens of the branch to discard, up to its first discard loop
IfSkipBegin ==
    /\ At("if", "skip")
    /\ LET t == lookahead(cur_token)
       IN CASE t \in TypeToks ->
                 Commit(advance(Here), Set([Top EXCEPT !.pc = "sd_ident"]))
            [] t = "TOK_PRINT" ->
                 LET r == skip_print_open(Here)
                 IN Commit(r, Call([Top EXCEPT !.pc = "tail",
                                               !.tail = <<"TOK_RPAREN", "TOK_SEMI">>],
                                   Scan(r.cur, {"TOK_RPAREN"})))
            [] t = "TOK_READ" ->
                 LET r1 == match(match(Here, "TOK_READ"), "TOK_LPAREN")
                     r2 == IF lookahead(r1.cur) = "TOK_IDENT" THEN advance(r1) ELSE r1
                 IN Commit(match(match(r2, "TOK_RPAREN"), "TOK_SEMI"),
                           Set([Top EXCEPT !.pc = "skipped"]))
            [] t = "TOK_IDENT" ->
                 LET r == match(advance(Here), "TOK_ASSIGN")
                 IN Commit(r, Call([Top EXCEPT !.pc = "tail", !.tail = <<"TOK_SEMI">>],
                                   Scan(r.cur, {"TOK_SEMI"})))
            [] t = "TOK_IF" ->
                 LET r == match(advance(Here), "TOK_LPAREN")
                 IN Commit(r, Call([Top EXCEPT !.pc = "nested_if"],
                                   Scan(r.cur, {"TOK_RPAREN"})))
            [] t = "TOK_WHILE" ->
                 LET r == match(advance(Here), "TOK_LPAREN")
                 IN Commit(r, Call([Top EXCEPT !.pc = "nested_while"],
                                   Scan(r.cur, {"TOK_RPAREN"})))
            [] t = "TOK_LBRACE" ->
                 Commit(rewind(Here, brace_loop(cur_token, 0)),
                        Set([Top EXCEPT !.pc = "skipped"]))
            [] OTHER ->
                 Commit([Here EXCEPT !.err = "syntax"], stack)

\* lines 636-653: one identifier of a discarded declaration
IfSkipDeclIdent ==
    /\ At("if", "sd_ident")
    /\ IF lookahead(cur_token) = "TOK_IDENT"
       THEN IF lookahead(cur_token + 1) = "TOK_ASSIGN"
            THEN Commit(rewind(Here, cur_token + 2),
                        Call([Top EXCEPT !.pc = "sd_sep"],
                             Scan(cur_token + 2, {"TOK_COMMA", "TOK_SEMI"})))
            ELSE Commit(advance(Here), Set([Top EXCEPT !.pc = "sd_sep"]))
       ELSE Commit([Here EXCEPT !.err = "syntax"], stack)

\* lines 654-660: the comma or the semicolon after it
IfSkipDeclSep ==
    /\ At("if", "sd_sep")
    /\ IF lookahead(cur_token) = "TOK_COMMA"
       THEN Commit(match(Here, "TOK_COMMA"), Set([Top EXCEPT !.pc = "sd_ident"]))
       ELSE Commit(match(Here, "TOK_SEMI"), Set([Top EXCEPT !.pc = "skipped"]))

RECURSIVE match_all(_, _)
match_all(r, ts) == IF ts = <<>> THEN r ELSE match_all(match(r, Head(ts)), Tail(ts))

\* lines 672-673 and 693: the tokens matched after the discard loop
IfSkipTail ==
    /\ At("if", "tail")
    /\ Commit(match_all(Here, Top.tail), Set([Top EXCEPT !.pc = "skipped", !.tail = <<>>]))

\* lines 705-706: match(TOK_RPAREN); parse_if_stmt()
IfSkipNestedIf ==
    /\ At("if", "nested_if")
    /\ LET r == match(Here, "TOK_RPAREN")
       IN Commit(r, Call([Top EXCEPT !.pc = "skipped"], Frame("if", r.cur)))

\* lines 718-729: match(TOK_RPAREN), then the body of the discarded Mientras
IfSkipNestedWhile ==
    /\ At("if", "nested_while")
    /\ LET r == match(Here, "TOK_RPAREN")
       IN IF lookahead(r.cur) = "TOK_LBRACE"
          THEN Commit(rewind(r, brace_loop(r.cur, 0)), Set([Top EXCEPT !.pc = "skipped"]))
          ELSE Commit(r, Call([Top EXCEPT !.pc = "skipped"], Frame("stmt", r.cur)))

\* the branch has been discarded: return (Sino branch), or lines 866-870
IfSkipEnd ==
    /\ At("if", "skipped")
    /\ IF Top.branch = "then" /\ lookahead(cur_token) = "TOK_ELSE"
       THEN LET r == match(Here, "TOK_ELSE")
            IN Commit(r, Call([Top EXCEPT !.pc = "ret"], Frame("stmt", r.cur)))
       ELSE Commit(Logged(Here, Ev("ret", "if", Top.at, cur_token)), Pop)

\* the Sino statement has been executed
IfReturn ==
    /\ At("if", "ret")
    /\ Commit(Logged(Here, Ev("ret", "if", Top.at, cur_token)), Pop)

(***************************************************************************)
(* The programs the interpreter is run on, written as the words of their   *)
(* source; Lex gives the token array tokenize_input() leaves for them.     *)
(* Each comes with the stdin it is run with and the stdout the language    *)
(* description fixes for it (exp; it ends with the OK line unless the      *)
(* program is to end in a fatal error).                                    *)
(***************************************************************************)
Keyword(w) ==
    CASE w = "Entero" -> "TOK_INT" [] w = "Caracter" -> "TOK_CHAR" [] w = "Flotante" -> "TOK_FLOAT"
      [] w = "Imprimir" -> "TOK_PRINT" [] w = "Leer" -> "TOK_READ" [] w = "Suma" -> "TOK_SUM"
      [] w = "Si" -> "TOK_IF" [] w = "Sino" -> "TOK_ELSE" [] w = "Mientras" -> "TOK_WHILE"
      [] w = "Switch" -> "TOK_SWITCH" [] w = "Caso" -> "TOK_CASE"
      [] w = "Predeterminado" -> "TOK_DEFAULT" [] w = "Romper" -> "TOK_BREAK"
      [] w = "," -> "TOK_COMMA" [] w = ";" -> "TOK_SEMI" [] w = "(" -> "TOK_LPAREN"
      [] w = ")" -> "TOK_RPAREN" [] w = "{" -> "TOK_LBRACE" [] w = "}" -> "TOK_RBRACE"
      [] w = ":" -> "TOK_COLON" [] w = "=" -> "TOK_ASSIGN" [] w = "==" -> "TOK_EQ"
      [] w = "!=" -> "TOK_NEQ" [] w = "<" -> "TOK_LT" [] w = "<=" -> "TOK_LE"
      [] w = ">" -> "TOK_GT" [] w = ">=" -> "TOK_GE" [] w = "+" -> "TOK_PLUS"
      [] w = "-" -> "TOK_MINUS" [] w = "*" -> "TOK_MULT" [] w = "/" -> "TOK_DIV"
      [] w \in {"@", "[", "%", "^", "!"} -> "TOK_UNKNOWN"
      [] OTHER -> "none"

NumWords == <<"0", "1", "2", "3", "4", "5", "6", "7", "8", "9", "10", "20">>
NumLexemes == <<<<"0">>, <<"1">>, <<"2">>, <<"3">>, <<"4">>, <<"5">>, <<"6">>, <<"7">>,
                <<"8">>, <<"9">>, <<"1", "0">>, <<"2", "0">>>>

Tok(w) ==
    IF Keyword(w) # "none" THEN [type |-> Keyword(w), lexeme |-> <<w>>]
    ELSE IF \E i \in 1..Len(NumWords) : NumWords[i] = w
    THEN [type |-> "TOK_NUM",
          lexeme |-> NumLexemes[CHOOSE i \in 1..Len(NumWords) : NumWords[i] = w]]
    ELSE IF w = "$hi" THEN [type |-> "TOK_STRING", lexeme |-> <<"h", "i">>]
    ELSE [type |-> "TOK_IDENT", lexeme |-> <<w>>]

Lex(src) ==
    [i \in 1..(Len(src) + 1) |->
        IF i <= Len(src) THEN Tok(src[i]) ELSE [type |-> "TOK_EOF", lexeme |-> <<"E", "O", "F">>]]

\* the word of a small literal
W(k) == NumWords[k + 1]

\* taken, untaken: for a Si program, the branch statements the condition selects
\* and passes over ("none": no such branch)
IfProg(fam, src, inp, exp, taken, untaken) ==
    [fam |-> fam, src |-> src, inp |-> inp, exp |-> exp, taken |-> taken, untaken |-> untaken]

Prog(fam, src, inp, exp) == IfProg(fam, src, inp, exp, "none", "none")

In(n) == [ok |-> TRUE, n |-> n]
BadIn == [ok |-> FALSE, n |-> 0]

PrintW(w) == <<"Imprimir", "(", w, ")", ";">>

RECURSIVE Desc(_)
\* the lines n, n-1, ..., 1
Desc(n) == IF n <= 0 THEN <<>> ELSE <<fmt_d(n)>> \o Desc(n - 1)

\* Entero n = n0; Mientras (n > 0) BODY  Imprimir(n);  [Imprimir(9);]
WhileBodies ==
    { [w |-> <<"{", "Imprimir", "(", "n", ")", ";", "n", "=", "n", "-", "1", ";", "}">>,
       prints |-> TRUE],
      [w |-> <<"n", "=", "n", "-", "1", ";">>, prints |-> FALSE] }

WhilePrograms ==
    { Prog("while",
           <<"Entero", "n", "=", W(n0), ";", "Mientras", "(", "n", ">", "0", ")">>
               \o b.w \o PrintW("n") \o (IF more THEN PrintW("9") ELSE <<>>),
           <<>>,
           (IF b.prints THEN Desc(n0) ELSE <<>>) \o <<fmt_d(0)>>
               \o (IF more THEN <<fmt_d(9)>> ELSE <<>>) \o <<OKLine>>) : n0 \in 0..MaxN, b \in WhileBodies, more \in BOOLEAN }

\* the branch statements of the Si programs: their words, the lines they
\* print when executed, and the value they leave in y (-1: y unchanged)
Branch(id, w, o, y) == [id |-> id, w |-> w, o |-> o, y |-> y]

SimpleBranches ==
    { Branch("decl", <<"Entero", "y", "=", "7", ",", "z", ";">>, <<>>, 7),
      Branch("print", <<"Imprimir", "(", "(", "1", ")", "+", "2", ")", ";">>, <<fmt_d(3)>>, -1),
      Branch("printb", <<"Imprimir", "{", "2", "}", ";">>, <<fmt_d(2)>>, -1),
      Branch("read", <<"Leer", "(", "y", ")", ";">>, <<>>, 8),
      Branch("assign", <<"y", "=", "(", "2", "+", "3", ")", ";">>, <<>>, 5),
      Branch("block", <<"{", "Imprimir", "(", "3", ")", ";", "y", "=", "4", ";", "}">>,
             <<fmt_d(3)>>, 4) }

NestedBranches ==
    { Branch("if_else", <<"Si", "(", "y", ">", "0", ")">> \o PrintW("4") \o <<"Sino">> \o PrintW("5"),
             <<fmt_d(5)>>, -1),
      Branch("while1", <<"Mientras", "(", "y", "<", "1", ")", "y", "=", "y", "+", "1", ";">>,
             <<>>, 1),
      Branch("whileb", <<"Mientras", "(", "y", "<", "2", ")", "{", "y", "=", "y", "+", "1", ";", "}">>,
             <<>>, 2),
      Branch("switch", <<"Switch", "(", "1", ")", "{", "Caso", "1", ":">> \o PrintW("6") \o <<"}">>,
             <<fmt_d(6)>>, -1) }

\* a Si without Sino: only as the Sino branch of the enclosing Si
ElseOnlyBranches ==
    { Branch("if", <<"Si", "(", "y", "==", "0", ")">> \o PrintW("4"), <<fmt_d(4)>>, -1) }

NoBranch == Branch("none", <<>>, <<>>, -1)

\* Entero x = v, y = 0; Si (x > 0) THEN [Sino ELSE] Imprimir(y);
IfProgram(fam, v, t, e) ==
    LET taken == IF v > 0 THEN t ELSE e
        untaken == IF v > 0 THEN e ELSE t
    IN IfProg(fam,
            <<"Entero", "x", "=", W(v), ",", "y", "=", "0", ";", "Si", "(", "x", ">", "0", ")">>
                \o t.w \o (IF e.id = "none" THEN <<>> ELSE <<"Sino">> \o e.w) \o PrintW("y"),
            <<In(8)>>,
            taken.o \o <<fmt_d(IF taken.y = -1 THEN 0 ELSE taken.y)>> \o <<OKLine>>,
            taken.id, untaken.id)

IfPrograms ==
    { IfProgram("if_simple", v, t, e) :
          v \in 0..1, t \in SimpleBranches, e \in SimpleBranches \cup {NoBranch} }
    \cup
    { IfProgram("if_nested", v, te[1], te[2]) :
          v \in 0..1,
          te \in ((SimpleBranches \cup NestedBranches)
                    \X (SimpleBranches \cup NestedBranches \cup ElseOnlyBranches \cup {NoBranch}))
                 \ (SimpleBranches \X (SimpleBranches \cup {NoBranch})) }

\* Switch (v) { Caso k1: Imprimir(1); [Romper;] ... [Predeterminado: Imprimir(0);] } Imprimir(9);
Arm(k, brk) == [k |-> k, brk |-> brk]

ArmLists == UNION { [1..n -> {Arm(k, b) : k \in 1..2, b \in BOOLEAN}] : n \in 0..MaxArms }

RECURSIVE ArmWords(_, _)
ArmWords(arms, i) ==
    IF i > Len(arms) THEN <<>>
    ELSE <<"Caso", W(arms[i].k), ":">> \o PrintW(W(i))
           \o (IF arms[i].brk THEN <<"Romper", ";">> ELSE <<>>) \o ArmWords(arms, i + 1)

\* the arm the selector chooses: the first whose literal equals it
\* (0: none; the Predeterminado arm prints 0)
Chosen(arms, v) ==
    IF \E i \in 1..Len(arms) : arms[i].k = v
    THEN CHOOSE i \in 1..Len(arms) : arms[i].k = v /\ \A j \in 1..(i - 1) : arms[j].k # v
    ELSE 0

\* every arm is followed by Romper / no arm is / some are
SwitchFam(arms) ==
    IF arms # <<>> /\ \A i \in 1..Len(arms) : arms[i].brk THEN "switch_allbrk"
    ELSE IF \A i \in 1..Len(arms) : ~arms[i].brk THEN "switch_nobrk"
    ELSE "switch_mixed"

SwitchPrograms ==
    { Prog(SwitchFam(arms),
           <<"Switch", "(", W(v), ")", "{">> \o ArmWords(arms, 1)
               \o (IF dflt THEN <<"Predeterminado", ":">> \o PrintW("0") ELSE <<>>)
               \o <<"}">> \o PrintW("9"),
           <<>>,
           (IF Chosen(arms, v) # 0 THEN <<fmt_d(Chosen(arms, v))>>
            ELSE IF dflt THEN <<fmt_d(0)>> ELSE <<>>) \o <<fmt_d(9), OKLine>>) : v \in 0..MaxN, arms \in ArmLists, dflt \in BOOLEAN }

\* the scenarios of the language description and programs with one fatal error
ScenarioA == <<"Entero", "a", "=", "8", ",", "b", "=", "3", ";",
               "Imprimir", "(", "a", "+", "b", ")", ";">>
ScenarioB == <<"Entero", "n", "=", "3", ";", "Mientras", "(", "n", ">", "0", ")",
               "{", "Imprimir", "(", "n", ")", ";", "n", "=", "n", "-", "1", ";", "}">>
ScenarioC == <<"Entero", "x", "=", "0", ";", "Si", "(", "x", ">", "0", ")">>
               \o PrintW("1") \o <<"Sino">> \o PrintW("2")
ScenarioD == <<"Entero", "z", "=", "5", ";", "Imprimir", "(", "z", "/", "0", ")", ";">>
ScenarioE == <<"Switch", "(", "2", ")", "{",
               "Caso", "1", ":", "Imprimir", "(", "10", ")", ";", "Romper", ";",
               "Caso", "2", ":", "Imprimir", "(", "20", ")", ";", "Romper", ";",
               "Predeterminado", ":", "Imprimir", "(", "0", ")", ";", "}">>

ScenarioPrograms ==
    { Prog("scenarioA", ScenarioA, <<>>, <<fmt_d(11), OKLine>>),
      Prog("scenarioB", ScenarioB, <<>>, <<fmt_d(3), fmt_d(2), fmt_d(1), OKLine>>),
      Prog("scenarioC", ScenarioC, <<>>, <<fmt_d(2), OKLine>>),
      Prog("scenarioD", ScenarioD, <<>>, <<>>),
      Prog("scenarioE", ScenarioE, <<>>, <<fmt_d(20), OKLine>>) }

\* programs that end in a fatal error after Imprimir(1); (exp has no OK line)
FatalTails ==
    { <<"Imprimir", "(", "2">>,                           \* input ends inside a statement
      <<"x", "=", ";">>,                                  \* missing expression
      <<"Imprimir", "(", "q", ")", ";">>,                 \* undeclared variable
      <<"Entero", "a", ";", "Imprimir", "(", "a", ")", ";">>,   \* declared, never assigned
      <<"Entero", "z", "=", "5", ";", "Imprimir", "(", "z", "/", "0", ")", ";">> \o PrintW("2"),
      <<"Suma", "1", "/", "(", "1", "-", "1", ")", ";">>,
      <<"@">>,                                            \* unknown character
      <<"}">>,                                            \* stray closing brace
      <<"Imprimir", "[", "2", ")", ";">>,
      <<"{", "Imprimir", "(", "2", ")", ";">>,            \* block never closed
      <<"Switch", "(", "1", ")", "{", "Caso", "x", ":">> \o PrintW("2") \o <<"}">>,
      <<"Leer", "(", "1", ")", ";">> }

FatalPrograms ==
    { Prog("fatal", PrintW("1") \o t, <<>>,
           IF t = <<"{", "Imprimir", "(", "2", ")", ";">> THEN <<fmt_d(1), fmt_d(2)>> ELSE <<fmt_d(1)>>) : t \in FatalTails }

ReadSrc == PrintW("1") \o <<"Leer", "(", "x", ")", ";">> \o PrintW("x")
             \o <<"Leer", "(", "x", ")", ";">> \o PrintW("x")

ReadPrograms ==
    { Prog("read", ReadSrc, <<In(4), In(5)>>, <<fmt_d(1), fmt_d(4), fmt_d(5), OKLine>>),
      Prog("read", ReadSrc, <<In(4)>>, <<fmt_d(1), fmt_d(4)>>),
      Prog("read", ReadSrc, <<In(4), BadIn>>, <<fmt_d(1), fmt_d(4)>>),
      Prog("read", ReadSrc, <<>>, <<fmt_d(1)>>) }

\* well-formed programs of other shapes
OtherPrograms ==
    { Prog("other", <<"Suma", "1", "+", "2", "*", "3", ";", "Imprimir", "{", "$hi", "}", ";",
                      "Imprimir", "(", "$hi", ")", ";", "Imprimir", "(", "-", "7", "/", "2", ")", ";">>,
           <<>>, <<fmt_d(7), <<"h", "i">>, <<"h", "i">>, fmt_d(-3), OKLine>>),
      Prog("other", <<"Entero", "n", "=", "2", ";", "Mientras", "(", "n", ">", "0", ")", "{",
                      "Si", "(", "n", "==", "1", ")">> \o PrintW("1") \o <<"Sino">> \o PrintW("2")
                      \o <<"n", "=", "n", "-", "1", ";", "}">>,
           <<>>, <<fmt_d(2), fmt_d(1), OKLine>>),
      Prog("other", <<"Caracter", "c", ",", "d", "=", "1", ";", "Flotante", "f", "=", "d", "+", "1", ";",
                      "{", "{", "}", "c", "=", "f", "*", "f", ";", "}">> \o PrintW("c"),
           <<>>, <<fmt_d(4), OKLine>>) }

\* malformed programs whose discarded statement never ends
RunawayPrograms ==
    { Prog("runaway", <<"Si", "(", "0", ")", "Imprimir", "(", ")", ";">>, <<>>, <<>>),
      Prog("runaway", <<"Switch", "(", "1", ")", "{", "Caso", "2", ":", "Imprimir", "(", "2">>,
           <<>>, <<>>),
      Prog("unclosed", <<"Si", "(", "0", ")", "{", "Imprimir", "(", "1", ")", ";">>, <<>>, <<>>) }

\* two arms with the selector's literal, the later one of another shape
DupArmTails ==
    { <<"{", "Imprimir", "(", "2", ")", ";", "}">>,
      <<"Si", "(", "1", ")">> \o PrintW("2") \o <<"Sino">> \o PrintW("3"),
      <<"x", "=", "2", ";">>,
      <<"Leer", "(", "x", ")", ";">>,
      <<"Mientras", "(", "0", ")">> \o PrintW("2"),
      <<"Switch", "(", "2", ")", "{", "Caso", "2", ":">> \o PrintW("2") \o <<"}">> }

DupArmPrograms ==
    { Prog("switch_dup",
           <<"Switch", "(", "1", ")", "{", "Caso", "1", ":">> \o PrintW("1")
               \o <<"Caso", "1", ":">> \o t \o <<"}">> \o PrintW("9"),
           <<In(8)>>, <<fmt_d(1), fmt_d(9), OKLine>>) : t \in DupArmTails }
    \cup { Prog("switch_dup",
                <<"Switch", "(", "1", ")", "{", "Caso", "1", ":">> \o PrintW("1")
                    \o <<"Romper", ";", "Caso", "1", ":">> \o PrintW("2") \o <<"}">> \o PrintW("9"),
                <<In(8)>>, <<fmt_d(1), fmt_d(9), OKLine>>) }

\* declarations: initializers that read earlier names of the same list, and
\* names declared again
DeclPrograms ==
    { Prog("decl", <<"Entero", "a", "=", "2", ",", "b", "=", "a", "+", "1", ";">> \o PrintW("b"),
           <<>>, <<fmt_d(3), OKLine>>),
      Prog("decl", <<"Entero", "a", "=", "1", ";", "Entero", "a", ";">> \o PrintW("a"),
           <<>>, <<>>),
      Prog("decl", <<"Entero", "a", "=", "1", ";", "Caracter", "a", ",", "b", "=", "2", ";">>
                       \o PrintW("b") \o PrintW("a"),
           <<>>, <<fmt_d(2)>>),
      Prog("decl", <<"Entero", "a", "=", "1", ",", "a", "=", "a", "+", "1", ";">> \o PrintW("a"),
           <<>>, <<>>),
      Prog("decl", <<"Entero", "a", "=", "1", ",", "a", ";">> \o PrintW("a"),
           <<>>, <<>>),
      Prog("decl", <<"Entero", "a", ",", "a", "=", "4", ";">> \o PrintW("a"),
           <<>>, <<fmt_d(4), OKLine>>),
      Prog("decl", <<"Entero", "a", ",", "b", ";", "a", "=", "5", ";",
                     "Flotante", "b", "=", "a", ",", "c", "=", "b", "*", "2", ";">>
                       \o PrintW("c") \o PrintW("a"),
           <<>>, <<fmt_d(10), fmt_d(5), OKLine>>) }

\* a Mientras in the body of a Mientras
NestedWhilePrograms ==
    { Prog("nested_while",
           <<"Entero", "a", "=", "1", ";", "Mientras", "(", "a", ">", "0", ")", "{",
             "Entero", "b", "=", "2", ";", "Mientras", "(", "b", ">", "0", ")",
             "b", "=", "b", "-", "1", ";", "a", "=", "a", "-", "1", ";", "}">> \o PrintW("a"),
           <<>>, <<fmt_d(0), OKLine>>) }

\* a Leer as the body of a Mientras whose condition is zero
SkipReadPrograms ==
    { Prog("while0_read",
           PrintW("1") \o <<"Mientras", "(", "0", ")", "Leer", "(", "x", ")", ";">> \o PrintW("2"),
           <<In(4), In(5)>>, <<fmt_d(1), fmt_d(2), OKLine>>) }

\* statements of the three kinds cut short after each of their tokens, at the
\* end of the input or before a further statement; x is declared, z is not
IncompleteStmts ==
    { PrintW("x"), <<"Imprimir", "{", "x", "}", ";">>, <<"Imprimir", "(", "$hi", ")", ";">>,
      <<"Leer", "(", "z", ")", ";">>, <<"x", "=", "2", ";">>, <<"z", "=", "x", "+", "1", ";">> }

IncompletePrograms ==
    UNION { { Prog("incomplete", <<"Entero", "x", "=", "1", ";">> \o SubSeq(st, 1, k) \o t,
                   <<In(4)>>, <<>>) : k \in 1..(Len(st) - 1), t \in {<<>>, PrintW("9")} }
            : st \in IncompleteStmts }

Programs ==
    IncompletePrograms \cup SkipReadPrograms \cup NestedWhilePrograms \cup DeclPrograms \cup DupArmPrograms \cup WhilePrograms \cup IfPrograms \cup SwitchPrograms \cup ScenarioPrograms
        \cup FatalPrograms \cup ReadPrograms \cup OtherPrograms \cup RunawayPrograms

(***************************************************************************)
(* The state when main calls parse_program(): the tokens are in place,     *)
(* cur_token = 0, the symbol table is empty, nothing is written.           *)
(***************************************************************************)
Init ==
    /\ \E p \in Programs :
          /\ tokens = Lex(p.src)
          /\ input = p.inp
          /\ prog = [fam |-> p.fam, exp |-> p.exp, taken |-> p.taken, untaken |-> p.untaken]
    /\ cur_token = 0
    /\ symtab = <<>>
    /\ out = <<>>
    /\ stack = <<Frame("main", 0), Frame("program", 0)>>
    /\ status = "running"
    /\ err = "none"
    /\ log = <<>>

Next ==
    \/ Main
    \/ ParseProgram
    \/ ParseStmt
    \/ ParseDeclStmt
    \/ ParsePrintStmt
    \/ ParseSumStmt
    \/ ParseReadStmt
    \/ ParseAssignStmt
    \/ ParseBlockStmt
    \/ BlockLoop
    \/ WhileStart
    \/ WhileRepeat
    \/ WhileRewind
    \/ WhileEnd
    \/ SkipSimpleStmt
    \/ SkipSimpleStep
    \/ SwitchStart
    \/ SwitchArm
    \/ SwitchAfterArm
    \/ SwitchDefault
    \/ SwitchClose
    \/ ScanStep
    \/ IfCond
    \/ IfAfterThen
    \/ IfSkipBegin
    \/ IfSkipDeclIdent
    \/ IfSkipDeclSep
    \/ IfSkipTail
    \/ IfSkipNestedIf
    \/ IfSkipNestedWhile
    \/ IfSkipEnd
    \/ IfReturn

Spec == Init /\ [][Next]_vars

Terminated == status # "running"

(***************************************************************************)
(* The grammar of the language description, as positions in the token      *)
(* array: StmtEnd(p) is the position just past the statement that starts   *)
(* at p, -1 when no statement starts there.                                *)
(***************************************************************************)
Tk(p, type) == IF p # -1 /\ lookahead(p) = type THEN p + 1 ELSE -1

BinOps == RelOps \cup {"TOK_PLUS", "TOK_MINUS", "TOK_MULT", "TOK_DIV"}

RECURSIVE ExprEnd(_), PrimaryEnd(_), StmtEnd(_), StmtListEnd(_), DeclListEnd(_), ArmsEnd(_)

ExprTail(u) == IF u # -1 /\ lookahead(u) \in BinOps THEN ExprEnd(u + 1) ELSE u

PrimaryEnd(p) ==
    IF lookahead(p) = "TOK_LPAREN" THEN Tk(ExprEnd(p + 1), "TOK_RPAREN")
    ELSE IF lookahead(p) \in {"TOK_NUM", "TOK_IDENT"} THEN p + 1
    ELSE -1

ExprEnd(p) ==
    IF p = -1 THEN -1
    ELSE ExprTail(PrimaryEnd(IF lookahead(p) = "TOK_MINUS" THEN p + 1 ELSE p))

OptInit(p) == IF p # -1 /\ lookahead(p) = "TOK_ASSIGN" THEN ExprEnd(p + 1) ELSE p

DeclSep(p) == IF p # -1 /\ lookahead(p) = "TOK_COMMA" THEN DeclListEnd(p + 1) ELSE Tk(p, "TOK_SEMI")

DeclListEnd(p) == DeclSep(OptInit(Tk(p, "TOK_IDENT")))

PrintArg(p) == IF lookahead(p) = "TOK_STRING" THEN p + 1 ELSE ExprEnd(p)

OptElse(p) == IF p # -1 /\ lookahead(p) = "TOK_ELSE" THEN StmtEnd(p + 1) ELSE p

OptBreak(p) == IF p # -1 /\ lookahead(p) = "TOK_BREAK" THEN Tk(p + 1, "TOK_SEMI") ELSE p

ArmsEnd(p) ==
    IF p = -1 THEN -1
    ELSE IF lookahead(p) = "TOK_CASE"
    THEN ArmsEnd(OptBreak(StmtEnd(Tk(Tk(p + 1, "TOK_NUM"), "TOK_COLON"))))
    ELSE IF lookahead(p) = "TOK_DEFAULT"
    THEN Tk(OptBreak(StmtEnd(Tk(p + 1, "TOK_COLON"))), "TOK_RBRACE")
    ELSE Tk(p, "TOK_RBRACE")

StmtListEnd(p) ==
    IF p = -1 THEN -1
    ELSE IF lookahead(p) = "TOK_RBRACE" THEN p + 1
    ELSE StmtListEnd(StmtEnd(p))

\* the position just past '(' <expr> ')' when '(' is at p
CondEnd(p) == Tk(ExprEnd(Tk(p, "TOK_LPAREN")), "TOK_RPAREN")

StmtEnd(p) ==
    IF p = -1 THEN -1
    ELSE CASE lookahead(p) \in TypeToks   -> DeclListEnd(p + 1)
           [] lookahead(p) = "TOK_PRINT"  ->
                IF lookahead(p + 1) = "TOK_LPAREN"
                THEN Tk(Tk(PrintArg(p + 2), "TOK_RPAREN"), "TOK_SEMI")
                ELSE IF lookahead(p + 1) = "TOK_LBRACE"
                THEN Tk(Tk(PrintArg(p + 2), "TOK_RBRACE"), "TOK_SEMI")
                ELSE -1
           [] lookahead(p) = "TOK_SUM"    -> Tk(ExprEnd(p + 1), "TOK_SEMI")
           [] lookahead(p) = "TOK_READ"   ->
                Tk(Tk(Tk(Tk(p + 1, "TOK_LPAREN"), "TOK_IDENT"), "TOK_RPAREN"), "TOK_SEMI")
           [] lookahead(p) = "TOK_IDENT"  -> Tk(ExprEnd(Tk(p + 1, "TOK_ASSIGN")), "TOK_SEMI")
           [] lookahead(p) = "TOK_IF"     -> OptElse(StmtEnd(CondEnd(p + 1)))
           [] lookahead(p) = "TOK_WHILE"  -> StmtEnd(CondEnd(p + 1))
           [] lookahead(p) = "TOK_SWITCH" -> ArmsEnd(Tk(CondEnd(p + 1), "TOK_LBRACE"))
           [] lookahead(p) = "TOK_LBRACE" -> StmtListEnd(p + 1)
           [] OTHER -> -1

(***************************************************************************)
(* Reading the record of events.                                           *)
(***************************************************************************)
Events(e, by) == {i \in DOMAIN log : log[i].e = e /\ log[i].by = by}

LastEv == log[Len(log)]

\* a function by has just returned
Returned(by) == log # <<>> /\ LastEv.e = "ret" /\ LastEv.by = by

\* the Mientras statements parse_stmt has entered
WhilesRun == {log[i].at : i \in Events("stmt", "while")}

\* the body of the Mientras at a
BodyPos(a) == CondEnd(a + 1)

\* how often the condition of the Mientras at a evaluated nonzero
NonzeroConds(a) == Cardinality({i \in Events("expr", "while") : log[i].at = a + 2 /\ log[i].v # 0})

\* how often parse_stmt executed the statement at p
Executions(p) == Cardinality({i \in DOMAIN log : log[i].e = "stmt" /\ log[i].at = p})

Count(line) == Cardinality({i \in DOMAIN out : out[i] = line})

NoEffectStep == out' = out /\ symtab' = symtab /\ input' = input

ExprCount == Cardinality({i \in DOMAIN log : log[i].e = "expr"})

IsPrefix(a, b) == Len(a) <= Len(b) /\ \A i \in DOMAIN a : a[i] = b[i]

(***************************************************************************)
(* Mientras                                                                *)
(***************************************************************************)
\* C1: the body of an executed Mientras takes effect exactly as many times as
\* its condition evaluated nonzero, and the loop is over the first time the
\* condition is zero; the program of scenario B writes exactly 3, 2, 1, OK.
C1_BodyRunsOncePerNonzeroCondition ==
    /\ status = "ok" => \A a \in WhilesRun : Executions(BodyPos(a)) = NonzeroConds(a)
    /\ (prog.fam = "scenarioB" /\ Terminated) => out = prog.exp

\* C2: when parse_while_stmt returns after having executed the body at least
\* once, the cursor is just past the last token of the body.
C2_CursorPastBodyOnReturn ==
    Returned("while") => LastEv.v = StmtEnd(BodyPos(LastEv.at))

\* a Mientras whose condition was zero at its first evaluation is active
InZeroWhile ==
    \E i \in DOMAIN stack : stack[i].fn = "while" /\ stack[i].pc \in {"skip1", "skip2"}

\* C3: when the condition is zero at its first evaluation, passing over the body
\* writes nothing, changes no symbol and reads no input, and the cursor ends
\* just past the body.
C3_ZeroConditionBodyHasNoEffect ==
    [][ /\ InZeroWhile => NoEffectStep
        /\ Returned("while0")' => LastEv'.v = StmtEnd(BodyPos(LastEv'.at)) ]_vars

(***************************************************************************)
(* Si / Sino                                                               *)
(***************************************************************************)
\* C4: a Si whose branches are declarations, prints, reads, assignments or
\* blocks of these evaluates its condition once, has the effects of the branch
\* the condition selects and of no other, and leaves the cursor just past the
\* whole statement, so that the run goes on to its end.
C4_IfRunsExactlyOneBranch ==
    (prog.fam = "if_simple" /\ Terminated) =>
        /\ status = "ok"
        /\ out = prog.exp
        /\ Cardinality(Events("expr", "if")) = 1
        /\ \E i \in Events("ret", "if") : log[i].v = StmtEnd(log[i].at)

SkipPcs == {"skip", "sd_ident", "sd_sep", "tail", "nested_if", "nested_while", "skipped"}

\* some parse_if_stmt is passing over its untaken branch
Discarding == \E i \in DOMAIN stack : stack[i].fn = "if" /\ stack[i].pc \in SkipPcs

\* C5: while the untaken branch of a Si is passed over, nothing is written, no
\* symbol is created or changed, no input is read and no expression is
\* evaluated, whatever the shape of the branch.
C5_DiscardedBranchHasNoEffect ==
    [][Discarding => NoEffectStep /\ ExprCount' = ExprCount]_vars

SimpleIds == {"none", "decl", "print", "read", "assign", "block"}

\* C6: a nested Si that is the untaken branch of a Si is passed over without a
\* syntax error, and the run continues with the statement after the construct.
C6_NestedIfDiscarded ==
    (prog.untaken \in {"if", "if_else"} /\ prog.taken \in SimpleIds /\ Terminated) =>
        status = "ok" /\ out = prog.exp

PrintIds == {"print", "printb"}

\* C23: an Imprimir in either delimiter form is accepted as the discarded
\* branch of a Si exactly as it is accepted when executed (both forms are
\* accepted when executed), and discarding leaves the cursor where executing
\* does, just past its semicolon: the Si programs whose branches are Imprimir
\* statements all end with OK and the described output.
C23_PrintDiscardedAsExecuted ==
    (prog.taken \in PrintIds \cup {"none"} /\ prog.untaken \in PrintIds \cup {"none"}
         /\ prog.fam = "if_simple" /\ Terminated) =>
        /\ status = "ok"
        /\ out = prog.exp
        /\ \E i \in DOMAIN log : log[i].e = "ret" /\ log[i].by = "if" /\ log[i].v = StmtEnd(log[i].at)

\* C22: a Switch that is the untaken branch of a Si is passed over through its
\* closing brace without effect and without a syntax error, and the run
\* continues with the statement after the Si.
C22_SwitchBranchDiscarded ==
    (prog.untaken = "switch" /\ Terminated) =>
        /\ status = "ok"
        /\ out = prog.exp
        /\ \E i \in DOMAIN log : log[i].e = "ret" /\ log[i].by = "if" /\ log[i].v = StmtEnd(log[i].at)

(***************************************************************************)
(* Switch                                                                  *)
(***************************************************************************)
\* C7: when every Caso arm is followed by Romper, the arms before the matching
\* one are passed over with their Romper, exactly the matching arm is executed
\* and the run ends with OK (scenario E writes exactly 20, OK).
C7_RomperAfterEveryArm ==
    (prog.fam \in {"scenarioE", "switch_allbrk"} /\ Terminated) =>
        status = "ok" /\ out = prog.exp

BrokenOut(i) ==
    /\ log[i].e = "arm" /\ log[i].by = "case" /\ log[i].v = 1
    /\ lookahead(StmtEnd(log[i].at)) = "TOK_BREAK"
    /\ lookahead(StmtEnd(log[i].at) + 2) = "TOK_CASE"

\* C20: a Switch whose executed arm is followed by Romper and then by further
\* Caso arms passes over those arms without effect and returns without error
\* with the cursor just past its closing brace; the run goes on to the OK line.
C20_RomperSkipsRemainingArms ==
    (prog.fam \in {"switch_allbrk", "switch_mixed", "switch_dup"}
         /\ Terminated /\ \E i \in DOMAIN log : BrokenOut(i)) =>
        /\ status = "ok"
        /\ out = prog.exp
        /\ \E j \in DOMAIN log :
              log[j].e = "ret" /\ log[j].by = "switch" /\ log[j].v = StmtEnd(log[j].at)

\* the programs whose Switch is well formed
SwitchFams == {"scenarioE", "switch_allbrk", "switch_nobrk", "switch_mixed", "switch_dup"}

\* C21: when skip_simple_stmt returns from an arm that was not selected, the
\* cursor is just past the last token of the arm's statement, whatever its
\* shape, and the next token is Caso, Predeterminado, Romper or the closing
\* brace.
C21_SkippedArmConsumedWhole ==
    [][ (prog.fam \in SwitchFams /\ Running /\ Top.fn = "skip_simple"
            /\ status' = "running" /\ Len(stack') < Len(stack)) =>
          /\ cur_token' = StmtEnd(Top.at)
          /\ lookahead(cur_token') \in {"TOK_CASE", "TOK_DEFAULT", "TOK_BREAK", "TOK_RBRACE"} ]_vars

HasDefault == \E i \in DOMAIN tokens : tokens[i].type = "TOK_DEFAULT"

\* C9: the Predeterminado arm is executed exactly when no Caso arm was.
C9_DefaultIffNoCaseExecuted ==
    (prog.fam \in {"scenarioE", "switch_allbrk", "switch_nobrk", "switch_mixed"}
        /\ HasDefault /\ Terminated) =>
        ((\E i \in Events("arm", "default") : log[i].v = 1)
            <=> ~(\E i \in Events("arm", "case") : log[i].v = 1))

(***************************************************************************)
(* The end of the run                                                      *)
(***************************************************************************)
\* C10: OK is written once, last, and only when the whole token array was
\* processed without error; a fatal error ends the run: OK is not written,
\* what was written before the error stays and nothing changes afterwards
\* (Imprimir(z / 0) writes nothing).
C10_OKOnlyAfterCleanRun ==
    /\ [](/\ Count(OKLine) = (IF status = "ok" THEN 1 ELSE 0)
          /\ status = "ok" => /\ out[Len(out)] = OKLine
                              /\ cur_token = num_tokens
                              /\ stack = <<>> /\ err = "none"
          /\ status = "error" => err # "none"
          /\ (prog.fam \in {"scenarioD", "fatal", "read"} /\ Terminated) => out = prog.exp)
    /\ [][status = "error" => UNCHANGED vars]_vars

\* a division by zero has ended a run that had written a line
C10_FatalErrorAfterOutput ==
    status = "error" /\ err = "divzero" /\ out = <<fmt_d(1)>> /\ stack # <<>>

(***************************************************************************)
(* Expressions without variables.  An expression is a tree: <<"num", n>>,  *)
(* <<"neg", e>> or <<"bin", op, l, r>>.  Words writes a tree as the token  *)
(* words of the grammar, with parentheses only where the tree's shape      *)
(* differs from what precedence and left associativity give; Eval is the   *)
(* value of the tree in integer arithmetic.                                *)
(***************************************************************************)
\* largest literal of the generated expressions
MaxLit == 3

Num(n) == <<"num", n>>
Neg(e) == <<"neg", e>>
Bin(op, l, r) == <<"bin", op, l, r>>

Operands == {Num(n) : n \in 0..MaxLit} \cup {Neg(Num(n)) : n \in 1..MaxLit}

Pairs == {Bin(op, l, r) : op \in BinOps, l \in Operands, r \in Operands}

Thirds == {Num(n) : n \in 1..MaxLit}

Exprs ==
    Operands \cup Pairs \cup {Neg(e) : e \in Pairs}
        \cup {Bin(op, l, r) : op \in BinOps, l \in Pairs, r \in Thirds}
        \cup {Bin(op, l, r) : op \in BinOps, l \in Thirds, r \in Pairs}

OpWord(op) ==
    CASE op = "TOK_EQ" -> "==" [] op = "TOK_NEQ" -> "!=" [] op = "TOK_LT" -> "<"
      [] op = "TOK_LE" -> "<=" [] op = "TOK_GT" -> ">" [] op = "TOK_GE" -> ">="
      [] op = "TOK_PLUS" -> "+" [] op = "TOK_MINUS" -> "-" [] op = "TOK_MULT" -> "*"
      [] OTHER -> "/"

\* relational 0 < additive 1 < multiplicative 2 < unary 3 < primary 4
OpLevel(op) ==
    IF op \in RelOps THEN 0 ELSE IF op \in {"TOK_PLUS", "TOK_MINUS"} THEN 1 ELSE 2

Level(e) == IF e[1] = "num" THEN 4 ELSE IF e[1] = "neg" THEN 3 ELSE OpLevel(e[2])

RECURSIVE Words(_)

\* the words w of a subtree of level lv where the grammar wants level min or tighter
Side(w, lv, min) == IF lv >= min THEN w ELSE <<"(">> \o w \o <<")">>

Words(e) ==
    IF e[1] = "num" THEN <<W(e[2])>>
    ELSE IF e[1] = "neg" THEN <<"-">> \o Side(Words(e[2]), Level(e[2]), 4)
    ELSE Side(Words(e[3]), Level(e[3]), OpLevel(e[2]))
             \o <<OpWord(e[2])>>
             \o Side(Words(e[4]), Level(e[4]), OpLevel(e[2]) + 1)

Abs(a) == IF a < 0 THEN -a ELSE a

\* the quotient of a by b # 0 whose remainder has the sign of a (C99 6.5.5)
Quot(a, b) ==
    CHOOSE q \in (-Abs(a))..Abs(a) :
        /\ Abs(a - q * b) < Abs(b)
        /\ a - q * b = 0 \/ (a - q * b > 0) = (a > 0)

Def(v) == [def |-> TRUE, val |-> v]
Undef == [def |-> FALSE, val |-> 0]

RECURSIVE Eval(_)

Minus(a) == IF a.def THEN Def(-(a.val)) ELSE Undef

Apply(op, a, b) ==
    IF ~a.def \/ ~b.def THEN Undef
    ELSE CASE op = "TOK_PLUS"  -> Def(a.val + b.val)
           [] op = "TOK_MINUS" -> Def(a.val - b.val)
           [] op = "TOK_MULT"  -> Def(a.val * b.val)
           [] op = "TOK_DIV"   -> IF b.val = 0 THEN Undef ELSE Def(Quot(a.val, b.val))
           [] op = "TOK_EQ"    -> Def(B2I(a.val = b.val))
           [] op = "TOK_NEQ"   -> Def(B2I(a.val # b.val))
           [] op = "TOK_LT"    -> Def(B2I(a.val < b.val))
           [] op = "TOK_LE"    -> Def(B2I(a.val <= b.val))
           [] op = "TOK_GT"    -> Def(B2I(a.val > b.val))
           [] OTHER            -> Def(B2I(a.val >= b.val))

Eval(e) ==
    IF e[1] = "num" THEN Def(e[2])
    ELSE IF e[1] = "neg" THEN Minus(Eval(e[2]))
    ELSE Apply(e[2], Eval(e[3]), Eval(e[4]))

\* parse_expr() is about to be called on the tokens of one expression; prog.exp
\* is the value of the tree the tokens were written from
ExprInit ==
    /\ \E e \in Exprs :
          /\ tokens = Lex(Words(e))
          /\ prog = [fam |-> "expr", exp |-> Eval(e), taken |-> "none", untaken |-> "none"]
    /\ cur_token = 0
    /\ symtab = <<>>
    /\ out = <<>>
    /\ input = <<>>
    /\ stack = <<Frame("expr", 0)>>
    /\ status = "running"
    /\ err = "none"
    /\ log = <<>>

\* one call of parse_expr()
ExprCall ==
    /\ At("expr", "start")
    /\ cur_token' = parse_expr(cur_token, symtab).cur
    /\ err' = parse_expr(cur_token, symtab).err
    /\ status' = IF err' = "none" THEN "returned" ELSE "error"
    /\ log' = Append(log, Ev("expr", "expr", cur_token, parse_expr(cur_token, symtab).val))
    /\ stack' = <<>>
    /\ UNCHANGED <<tokens, symtab, out, input, prog>>

ExprNext == ExprCall

ExprSpec == ExprInit /\ [][ExprNext]_vars

\* C11: for an expression without variables parse_expr returns the value of
\* integer arithmetic under the precedence relational < additive <
\* multiplicative < unary with left associativity, and leaves the cursor just
\* past the expression; it fails only for a division by zero, and then with
\* the division error.
C11_ExprValue ==
    (prog.fam = "expr" /\ status # "running") =>
        IF prog.exp.def
        THEN /\ status = "returned"
             /\ LastEv.v = prog.exp.val
             /\ cur_token = num_tokens - 1
        ELSE status = "error" /\ err = "divzero"

\* parse_expr has returned 1 for 1 < 2 < 3, the value of (1 < 2) < 3
C11_LeftAssociativeRelation ==
    /\ status = "returned"
    /\ tokens = Lex(<<"1", "<", "2", "<", "3">>)
    /\ LastEv.v = 1
    /\ cur_token = 5

(***************************************************************************)
(* The symbol table under calls of its three functions.  The table is      *)
(* empty, as at the start of a run, or holds MAX_VARS symbols, as after    *)
(* MAX_VARS distinct names were declared.  log holds the last call:        *)
(* [e: the function, by: the name, at: the index returned (-1: none),      *)
(* v: the value passed or returned].  exit(1) ends the calls.              *)
(***************************************************************************)
\* largest value stored by a call
MaxVal == 2

SymNames == {<<"a">>, <<"b">>, <<"c">>}

\* the i-th name declared in the full table: a, b, v3, v4, ...
VarName(i) == IF i = 1 THEN <<"a">> ELSE IF i = 2 THEN <<"b">> ELSE <<"v">> \o utoa(i)

FullTable == [i \in 1..MAX_VARS |-> [name |-> VarName(i), value |-> 0, is_defined |-> 0]]

\* the statement of the program the calls are made for: c = 2;
SymSrc == <<"c", "=", "2", ";">>

SymInit ==
    /\ symtab \in {<<>>, FullTable}
    /\ tokens = Lex(SymSrc)
    /\ cur_token = 0
    /\ out = <<>>
    /\ input = <<>>
    /\ stack = <<Frame("sym", 0)>>
    /\ status = "running"
    /\ err = "none"
    /\ log = <<>>
    /\ prog = [fam |-> "sym", exp |-> <<>>, taken |-> "none", untaken |-> "none"]

\* the call's outcome: a is what add_symbol or set_symbol_value returned
SymCommit(e, name, v, a) ==
    /\ symtab' = a.tab
    /\ err' = a.err
    /\ status' = IF a.err = "none" THEN "running" ELSE "error"
    /\ log' = <<Ev(e, name, IF a.err = "none" THEN a.idx ELSE -1, v)>>
    /\ UNCHANGED <<tokens, cur_token, out, input, stack, prog>>

AddSymbolCall ==
    /\ At("sym", "start")
    /\ \E name \in SymNames : SymCommit("add", name, 0, add_symbol(symtab, name))

SetSymbolCall ==
    /\ At("sym", "start")
    /\ \E name \in SymNames, v \in 0..MaxVal :
          SymCommit("set", name, v, set_symbol_value(symtab, name, v))

\* g is what get_symbol_value returned
GetCommit(name, g) ==
    /\ err' = g.err
    /\ status' = IF g.err = "none" THEN "running" ELSE "error"
    /\ log' = <<Ev("get", name, lookup_symbol(symtab, name), g.val)>>
    /\ UNCHANGED <<tokens, cur_token, symtab, out, input, stack, prog>>

GetSymbolCall ==
    /\ At("sym", "start")
    /\ \E name \in SymNames : GetCommit(name, get_symbol_value(symtab, name))

\* parse_assign_stmt() on the statement, at any moment before it has run
AssignCall ==
    /\ At("sym", "start")
    /\ cur_token = 0
    /\ Commit(parse_assign_stmt(Here), stack)

SymNext == AddSymbolCall \/ SetSymbolCall \/ GetSymbolCall \/ AssignCall

SymSpec == SymInit /\ [][SymNext]_vars

\* the entry of name in the table, or none
Present(name) == \E i \in DOMAIN symtab : symtab[i].name = name
Entry(name) == symtab[CHOOSE i \in DOMAIN symtab : symtab[i].name = name]

\* C12: get_symbol_value returns the stored value only for a symbol that is
\* present and defined; a name that is not in the table is one fatal error, a
\* symbol that is present and not defined is another, with its own diagnostic.
C12_GetOnlyDefined ==
    (log # <<>> /\ LastEv.e = "get") =>
        IF ~Present(LastEv.by) THEN status = "error" /\ err = "undeclared"
        ELSE IF Entry(LastEv.by).is_defined = 0 THEN status = "error" /\ err = "uninit"
        ELSE status = "running" /\ err = "none" /\ LastEv.v = Entry(LastEv.by).value

\* a symbol that was added and never set has been read
C12_ReadOfUndefinedSymbol ==
    /\ log # <<>> /\ LastEv.e = "get"
    /\ Present(LastEv.by) /\ Entry(LastEv.by).is_defined = 0
    /\ Len(symtab) = 1
    /\ status = "error" /\ err = "uninit"

(***************************************************************************)
(* Declarations                                                            *)
(***************************************************************************)
\* token p of a declaration statement is one of the identifiers it declares
DeclaredAt(p) ==
    lookahead(p) = "TOK_IDENT" /\ lookahead(p - 1) \in TypeToks \cup {"TOK_COMMA"}

\* no identifier declared after p, up to token end, has the name of p
LastDecl(p, end) ==
    \A q \in (p + 1)..end : ~(DeclaredAt(q) /\ lexeme(q) = lexeme(p))

\* the initializer of the identifier at p is one literal
LiteralInit(p) ==
    lookahead(p + 2) = "TOK_NUM" /\ lookahead(p + 3) \in {"TOK_COMMA", "TOK_SEMI"}

\* parse_decl_stmt is about to run and returns in this step
DeclReturns ==
    /\ status = "running" /\ stack # <<>>
    /\ Top.fn = "decl" /\ Top.pc = "start"
    /\ status' = "running" /\ stack' # stack

\* C13: after a declaration is executed every identifier of its list without
\* initializer is present and undefined, also when it was defined before, and
\* every identifier with initializer is defined with the initializer's value,
\* the initializers being evaluated left to right against the table as
\* updated so far (Entero a = 8, b = 3; Imprimir(a + b); prints 11).
C13_DeclarationEffect ==
    /\ []((prog.fam \in {"decl", "scenarioA"} /\ Terminated) =>
             /\ out = prog.exp
             /\ status = "ok" \/ err = "uninit")
    /\ [][DeclReturns =>
             \A p \in (cur_token + 1)..(cur_token' - 2) :
                 (DeclaredAt(p) /\ LastDecl(p, cur_token' - 2)) =>
                     /\ Present(lexeme(p))'
                     /\ IF lookahead(p + 1) = "TOK_ASSIGN"
                        THEN /\ Entry(lexeme(p))'.is_defined = 1
                             /\ LiteralInit(p) => Entry(lexeme(p))'.value = atoi(lexeme(p + 2))
                        ELSE Entry(lexeme(p))'.is_defined = 0]_vars

\* a symbol that held the value 1 was declared again without initializer and
\* is undefined
C13_RedeclaredUndefined ==
    /\ prog.fam = "decl" /\ status = "running"
    /\ Len(symtab) = 1
    /\ symtab[1].value = 1 /\ symtab[1].is_defined = 0
    /\ lookahead(cur_token) = "TOK_PRINT"

(***************************************************************************)
(* Nesting                                                                 *)
(***************************************************************************)
RECURSIVE Unclosed(_, _)

\* the number of `{` among tokens i.. that have no matching `}`, d being open
Unclosed(i, d) ==
    IF i > num_tokens THEN d
    ELSE IF tokens[i].type = "TOK_LBRACE" THEN Unclosed(i + 1, d + 1)
    ELSE IF tokens[i].type = "TOK_RBRACE" /\ d > 0 THEN Unclosed(i + 1, d - 1)
    ELSE Unclosed(i + 1, d)

\* C14: a run ends with OK only if every `{` of the program has its matching
\* `}` before the end of the input; a block left open at the end of the input
\* is a fatal syntax error, whether the block is executed or passed over.
C14_OKOnlyIfBracesClosed ==
    /\ status = "ok" => Unclosed(1, 0) = 0
    /\ (Terminated /\ Unclosed(1, 0) > 0) => status = "error" /\ err = "syntax"

(***************************************************************************)
(* The cursor                                                              *)
(***************************************************************************)
\* C15: in every reachable state, for well-formed and malformed token
\* sequences alike, 0 <= cur_token <= num_tokens: no parsing or skipping step
\* moves the cursor beyond the end-of-input token.
C15_CursorWithinTokens == 0 <= cur_token /\ cur_token <= num_tokens

(***************************************************************************)
(* add_symbol                                                              *)
(***************************************************************************)
\* C16: add_symbol called with a name that is in the table returns that
\* symbol's index and changes neither the number of symbols nor any symbol, in
\* every table state, a table of MAX_VARS symbols included.
C16_AddExistingIsIdempotent ==
    [][(log' # <<>> /\ LastEv'.e = "add" /\ Present(LastEv'.by)) =>
           /\ status' = "running"
           /\ symtab' = symtab
           /\ LastEv'.at = lookup_symbol(symtab, LastEv'.by)]_vars

(***************************************************************************)
(* Determinism.  A run is fixed by its first state, which is fixed by the  *)
(* tokens and the input values, when no state has two successors.  The     *)
(* steps are functions of the state they are taken in; StepDue names the   *)
(* one step the top frame of the call stack and the token under the cursor *)
(* call for.                                                               *)
(***************************************************************************)
StepAt(w) ==
    CASE w = <<"main", "start">> -> "Main"
      [] w = <<"program", "start">> -> "ParseProgram"
      [] w = <<"stmt", "start">> -> "ParseStmt"
      [] w = <<"decl", "start">> -> "ParseDeclStmt"
      [] w = <<"print", "start">> -> "ParsePrintStmt"
      [] w = <<"sum", "start">> -> "ParseSumStmt"
      [] w = <<"read", "start">> -> "ParseReadStmt"
      [] w = <<"assign", "start">> -> "ParseAssignStmt"
      [] w = <<"block", "start">> -> "ParseBlockStmt"
      [] w = <<"block", "loop">> -> "BlockLoop"
      [] w = <<"while", "start">> -> "WhileStart"
      [] w = <<"while", "body">> -> "WhileRepeat"
      [] w = <<"while", "skip1">> -> "WhileRewind"
      [] w = <<"while", "skip2">> -> "WhileEnd"
      [] w = <<"skip_simple", "start">> -> "SkipSimpleStmt"
      [] w = <<"skip_simple", "loop">> -> "SkipSimpleStep"
      [] w = <<"switch", "start">> -> "SwitchStart"
      [] w = <<"switch", "arms">> ->
                (IF lookahead(cur_token) = "TOK_CASE" THEN "SwitchArm" ELSE "SwitchDefault")
      [] w = <<"switch", "after_arm">> -> "SwitchAfterArm"
      [] w = <<"switch", "default">> -> "SwitchDefault"
      [] w = <<"switch", "close">> -> "SwitchClose"
      [] w = <<"scan", "start">> -> "ScanStep"
      [] w = <<"if", "start">> -> "IfCond"
      [] w = <<"if", "then_done">> -> "IfAfterThen"
      [] w = <<"if", "skip">> -> "IfSkipBegin"
      [] w = <<"if", "sd_ident">> -> "IfSkipDeclIdent"
      [] w = <<"if", "sd_sep">> -> "IfSkipDeclSep"
      [] w = <<"if", "tail">> -> "IfSkipTail"
      [] w = <<"if", "nested_if">> -> "IfSkipNestedIf"
      [] w = <<"if", "nested_while">> -> "IfSkipNestedWhile"
      [] w = <<"if", "skipped">> -> "IfSkipEnd"
      [] w = <<"if", "ret">> -> "IfReturn"
      [] OTHER -> "none"

StepDue == IF stack = <<>> THEN "none" ELSE StepAt(<<Top.fn, Top.pc>>)

MAX_TOKENS == 2048
MAX_LEXEME_LEN == 128

LowerCase == <<"a", "b", "c", "d", "e", "f", "g", "h", "i", "j", "k", "l", "m", "n", "o", "p", "q", "r", "s", "t", "u", "v", "w", "x", "y", "z">>
UpperCase == <<"A", "B", "C", "D", "E", "F", "G", "H", "I", "J", "K", "L", "M", "N", "O", "P", "Q", "R", "S", "T", "U", "V", "W", "X", "Y", "Z">>

\* the place of c in the alphabet a, 0 if it is not in it
IndexIn(a, c) == IF \E i \in DOMAIN a : a[i] = c THEN CHOOSE i \in DOMAIN a : a[i] = c ELSE 0

isalpha(c) == IndexIn(LowerCase, c) > 0 \/ IndexIn(UpperCase, c) > 0
isdigit(c) == DigitVal(c) >= 0
tolower(c) == IF IndexIn(UpperCase, c) > 0 THEN LowerCase[IndexIn(UpperCase, c)] ELSE c

Blanks == {" ", "\t", "\n", "\r"}

RECURSIVE skip_blanks(_), word_end(_, _), digits_end(_, _), string_end(_, _)

\* do { c = next_char(); } while (c is a blank): s from the first other character
skip_blanks(s) == IF s # <<>> /\ Head(s) \in Blanks THEN skip_blanks(Tail(s)) ELSE s

\* the index of the last character of the run of letters and digits that s[i..] starts with
word_end(s, i) ==
    IF i <= Len(s) /\ (isalpha(s[i]) \/ isdigit(s[i])) THEN word_end(s, i + 1) ELSE i - 1

digits_end(s, i) == IF i <= Len(s) /\ isdigit(s[i]) THEN digits_end(s, i + 1) ELSE i - 1

\* the index of the character that ends the string loop: '"', '\n', or Len(s) + 1 at EOF
string_end(s, i) ==
    IF i <= Len(s) /\ s[i] # "\"" /\ s[i] # "\n" THEN string_end(s, i + 1) ELSE i

\* buffer after the copying loop: if (len < MAX_LEXEME_LEN - 1) buffer[len++] = c
buffer_of(s, first, last) ==
    SubSeq(s, first, IF last - first + 1 > MAX_LEXEME_LEN - 1
                     THEN first + MAX_LEXEME_LEN - 2 ELSE last)

\* the strcmp chain of lines 128-140 on the lower-case copy
keyword_type(tmp) ==
    CASE tmp = <<"e", "n", "t", "e", "r", "o">> -> "TOK_INT"
      [] tmp = <<"c", "a", "r", "a", "c", "t", "e", "r">> -> "TOK_CHAR"
      [] tmp = <<"f", "l", "o", "t", "a", "n", "t", "e">> -> "TOK_FLOAT"
      [] tmp = <<"i", "m", "p", "r", "i", "m", "i", "r">> -> "TOK_PRINT"
      [] tmp = <<"l", "e", "e", "r">> -> "TOK_READ"
      [] tmp = <<"s", "u", "m", "a">> -> "TOK_SUM"
      [] tmp = <<"s", "i">> -> "TOK_IF"
      [] tmp = <<"s", "i", "n", "o">> -> "TOK_ELSE"
      [] tmp = <<"m", "i", "e", "n", "t", "r", "a", "s">> -> "TOK_WHILE"
      [] tmp = <<"s", "w", "i", "t", "c", "h">> -> "TOK_SWITCH"
      [] tmp = <<"c", "a", "s", "o">> -> "TOK_CASE"
      [] tmp = <<"p", "r", "e", "d", "e", "t", "e", "r", "m", "i", "n", "a", "d", "o">> -> "TOK_DEFAULT"
      [] tmp = <<"r", "o", "m", "p", "e", "r">> -> "TOK_BREAK"
      [] OTHER -> "TOK_IDENT"

Lexed(type, lex, rest) == [type |-> type, lexeme |-> lex, rest |-> rest, err |-> "none"]

after(s, n) == SubSeq(s, n + 1, Len(s))

\* lines 112-144: s starts with a letter
lex_word(s, last) ==
    Lexed(keyword_type([i \in DOMAIN buffer_of(s, 1, last) |-> tolower(buffer_of(s, 1, last)[i])]),
          buffer_of(s, 1, last), after(s, last))

\* a string taken as closed wherever its loop ends
lex_string_lenient(s, stop) ==
    Lexed("TOK_STRING", buffer_of(s, 2, stop - 1), after(s, IF stop > Len(s) THEN Len(s) ELSE stop))

\* lines 146-160: s starts with '"'; stop is the index string_end found
lex_string(s, stop) ==
    IF stop > Len(s) \/ s[stop] # "\""
    THEN [type |-> "TOK_STRING", lexeme |-> buffer_of(s, 2, stop - 1),
          rest |-> after(s, IF stop > Len(s) THEN Len(s) ELSE stop), err |-> "string"]
    ELSE Lexed("TOK_STRING", buffer_of(s, 2, stop - 1), after(s, stop))

\* lines 162-172: s starts with a digit
lex_number(s, last) == Lexed("TOK_NUM", buffer_of(s, 1, last), after(s, last))

\* lines 174-193: c followed by '=' is the token two, c alone the token one
lex_pair(s, two, one) ==
    IF Len(s) >= 2 /\ s[2] = "="
    THEN Lexed(two, <<s[1], "=">>, after(s, 2))
    ELSE Lexed(one, <<s[1]>>, after(s, 1))

\* the switch of lines 195-211
single_type(c) ==
    CASE c = "," -> "TOK_COMMA" [] c = ";" -> "TOK_SEMI" [] c = "(" -> "TOK_LPAREN"
      [] c = ")" -> "TOK_RPAREN" [] c = "{" -> "TOK_LBRACE" [] c = "}" -> "TOK_RBRACE"
      [] c = ":" -> "TOK_COLON" [] c = "+" -> "TOK_PLUS" [] c = "-" -> "TOK_MINUS"
      [] c = "*" -> "TOK_MULT" [] c = "/" -> "TOK_DIV"
      [] OTHER -> "TOK_UNKNOWN"

\* yylex once the blanks are skipped
lex_at(s) ==
    IF s = <<>> THEN Lexed("TOK_EOF", <<>>, <<>>)
    ELSE IF isalpha(s[1]) THEN lex_word(s, word_end(s, 2))
    ELSE IF s[1] = "\"" THEN lex_string(s, string_end(s, 2))
    ELSE IF isdigit(s[1]) THEN lex_number(s, digits_end(s, 2))
    ELSE IF s[1] = "=" THEN lex_pair(s, "TOK_EQ", "TOK_ASSIGN")
    ELSE IF s[1] = "!" THEN lex_pair(s, "TOK_NEQ", "TOK_UNKNOWN")
    ELSE IF s[1] = "<" THEN lex_pair(s, "TOK_LE", "TOK_LT")
    ELSE IF s[1] = ">" THEN lex_pair(s, "TOK_GE", "TOK_GT")
    ELSE Lexed(single_type(s[1]), <<s[1]>>, after(s, 1))

yylex(s) == lex_at(skip_blanks(s))

(***************************************************************************)
(* tokenize_input() on a source text.  prog.exp is the text of the file,   *)
(* Top.at the number of its characters read so far, tokens the array       *)
(* add_token has filled.  log[i] records for tokens[i] the offset of its    *)
(* first character (at) and the number of characters it was made from (v). *)
(***************************************************************************)
MaxExtra == 2

\* the characters of a word of the programs above
Spell(w) ==
    CASE w = "Entero" -> <<"E", "n", "t", "e", "r", "o">>
      [] w = "Caracter" -> <<"C", "a", "r", "a", "c", "t", "e", "r">>
      [] w = "Flotante" -> <<"F", "l", "o", "t", "a", "n", "t", "e">>
      [] w = "Imprimir" -> <<"I", "m", "p", "r", "i", "m", "i", "r">>
      [] w = "Leer" -> <<"L", "e", "e", "r">>
      [] w = "Suma" -> <<"S", "u", "m", "a">>
      [] w = "Si" -> <<"S", "i">>
      [] w = "Sino" -> <<"S", "i", "n", "o">>
      [] w = "Mientras" -> <<"M", "i", "e", "n", "t", "r", "a", "s">>
      [] w = "Switch" -> <<"S", "w", "i", "t", "c", "h">>
      [] w = "Caso" -> <<"C", "a", "s", "o">>
      [] w = "Predeterminado" -> <<"P", "r", "e", "d", "e", "t", "e", "r", "m", "i", "n", "a", "d", "o">>
      [] w = "Romper" -> <<"R", "o", "m", "p", "e", "r">>
      [] w = "$hi" -> <<"\"", "h", "i", "\"">>
      [] w = "==" -> <<"=", "=">> [] w = "!=" -> <<"!", "=">>
      [] w = "<=" -> <<"<", "=">> [] w = ">=" -> <<">", "=">>
      [] w = "10" -> <<"1", "0">> [] w = "20" -> <<"2", "0">>
      [] OTHER -> <<w>>

RECURSIVE Text(_)
\* a program written with one space between its words
Text(src) ==
    IF src = <<>> THEN <<>>
    ELSE IF Len(src) = 1 THEN Spell(src[1])
    ELSE Spell(src[1]) \o <<" ">> \o Text(Tail(src))

\* an identifier of n characters: a...a and a last character
LongName(n, last) == [i \in 1..n |-> IF i < n THEN "a" ELSE last]

\* Entero <id1> = 1; Imprimir(<id2>);
TwoNames(id1, id2) ==
    Spell("Entero") \o <<" ">> \o id1 \o <<" ", "=", " ", "1", ";", "\n">>
        \o Spell("Imprimir") \o <<"(">> \o id2 \o <<")", ";", "\n">>

\* two names that differ in their last character only, k characters longer
\* than a lexeme can hold
NamesOver(k) ==
    TwoNames(LongName(MAX_LEXEME_LEN - 1 + k, "x"), LongName(MAX_LEXEME_LEN - 1 + k, "y"))

OverLongTexts == { NamesOver(k) : k \in 1..MaxExtra }

LongNameTexts == { NamesOver(0) } \cup OverLongTexts

OperatorTexts ==
    { Text(<<"Imprimir", "(", "7", op, "2", ")", ";">>) : op \in {"+", "-", "*", "/", "%", "^"} }

OddTexts ==
    { <<>>,
      <<" ", "\t", "\r", "\n">>,
      <<"E", "N", "T", "E", "R", "O", " ", "x", "1", ";", "s", "I", "(", "x", "1", ")", "x", "1", "=", "=", "1", ";">>,
      <<"S", "i", "n", "o", "s", " ", "1", "2", "a", "b", "<", "=", ">", "=", "!", "=", "!", "<", ">", "=", "=", "=">>,
      Spell("Imprimir") \o <<"(", "\"", "a", " ", "+", "\"", ")", ";">>,
      Spell("Imprimir") \o <<"(", "\"", "h", "i", ")", ";">>,
      Spell("Imprimir") \o <<"(", "\"", "h", "\n", "i", "\"", ")", ";">>,
      <<"\"">> \o LongName(MAX_LEXEME_LEN, "z") \o <<"\"", "1">>,
      LongName(MAX_LEXEME_LEN, "1") \o <<"+">>,
      [i \in 1..(MAX_LEXEME_LEN + 1) |-> "1"] }

WordTexts == { Text(p.src) : p \in ScenarioPrograms \cup OtherPrograms \cup FatalPrograms }

SourceTexts == LongNameTexts \cup OperatorTexts \cup OddTexts \cup WordTexts

LexInit ==
    /\ \E t \in SourceTexts :
          prog = [fam |-> "lex", exp |-> t, taken |-> "none", untaken |-> "none"]
    /\ tokens = <<>>
    /\ cur_token = 0
    /\ symtab = <<>>
    /\ out = <<>>
    /\ input = <<>>
    /\ stack = <<Frame("tokenize", 0)>>
    /\ status = "running"
    /\ err = "none"
    /\ log = <<>>

\* the characters of the file not read yet
Unread == after(prog.exp, Top.at)

\* add_token(type, lexe): the token array after the call, or the capacity error
add_token(toks, type, lexe) ==
    IF Len(toks) >= MAX_TOKENS THEN [toks |-> toks, err |-> "capacity"]
    ELSE [toks |-> Append(toks, [type |-> type, lexeme |-> buffer_of(lexe, 1, Len(lexe))]),
          err |-> "none"]

\* t = yylex() in the loop of tokenize_input: y is what yylex(Unread) made
YylexCommit(y, a) ==
    /\ IF y.err # "none" THEN status' = "error" /\ err' = y.err /\ tokens' = tokens
       ELSE IF y.type = "TOK_EOF" THEN status' = status /\ err' = err /\ tokens' = tokens
       ELSE /\ tokens' = a.toks
            /\ err' = a.err
            /\ status' = IF a.err = "none" THEN status ELSE "error"
    /\ stack' = Set([Top EXCEPT !.at = Len(prog.exp) - Len(y.rest),
                                !.pc = IF y.err = "none" /\ y.type = "TOK_EOF" THEN "eof" ELSE @])
    /\ log' = IF y.err # "none" \/ y.type = "TOK_EOF" THEN log
              ELSE Append(log, Ev("tok", y.type, Len(prog.exp) - Len(skip_blanks(Unread)),
                              Len(skip_blanks(Unread)) - Len(y.rest)))
    /\ UNCHANGED <<cur_token, symtab, out, input, prog>>

Yylex ==
    /\ At("tokenize", "start")
    /\ YylexCommit(yylex(Unread), add_token(tokens, yylex(Unread).type, yylex(Unread).lexeme))

\* add_token(TOK_EOF, "EOF") after the loop
AddEof ==
    /\ At("tokenize", "eof")
    /\ tokens' = add_token(tokens, "TOK_EOF", <<"E", "O", "F">>).toks
    /\ err' = add_token(tokens, "TOK_EOF", <<"E", "O", "F">>).err
    /\ status' = IF err' = "none" THEN "lexed" ELSE "error"
    /\ stack' = <<>>
    /\ UNCHANGED <<cur_token, symtab, out, input, prog, log>>

LexNext == Yylex \/ AddEof

LexSpec == LexInit /\ [][LexNext]_vars

\* the characters of the file that tokens[i] was made from
SourceOf(i) == SubSeq(prog.exp, log[i].at + 1, log[i].at + log[i].v)

Made == DOMAIN log \cap DOMAIN tokens

\* C18: no identifier token is made from an identifier of more than
\* MAX_LEXEME_LEN - 1 characters (lexing ends in the capacity error instead),
\* and two identifier tokens with the same lexeme were written the same way in
\* the source.
C18_LongIdentifierIsFatal ==
    prog.fam = "lex" =>
        /\ \A i \in Made : tokens[i].type = "TOK_IDENT" => log[i].v <= MAX_LEXEME_LEN - 1
        /\ \A i, j \in Made :
              (tokens[i].type = "TOK_IDENT" /\ tokens[j].type = "TOK_IDENT"
                  /\ tokens[i].lexeme = tokens[j].lexeme) => SourceOf(i) = SourceOf(j)
        /\ (status # "running" /\ prog.exp \in OverLongTexts) =>
              status = "error" /\ err = "capacity"

ArithmeticChars == {"+", "-", "*", "/", "%", "^"}

\* C19: a token that starts with one of + - * / % ^ is that one character
\* classified as an arithmetic operator, never the unknown token.
C19_ArithmeticOperatorTokens ==
    prog.fam = "lex" =>
        \A i \in Made :
            prog.exp[log[i].at + 1] \in ArithmeticChars =>
                /\ tokens[i].type # "TOK_UNKNOWN"
                /\ tokens[i].lexeme = <<prog.exp[log[i].at + 1]>>

(***************************************************************************)
(* The cursor                                                              *)
(***************************************************************************)
\* C24: a step that lowers the cursor is a step of parse_while_stmt: it sets
\* the cursor to the cond_pos, body_pos or saved that this invocation
\* recorded, all of them after the loop's own Mientras token, and from there
\* the step only advances; a step that calls the body leaves the cursor
\* exactly at the recorded body position.  Every other step leaves the
\* cursor where it is or advances it.
C24_RewindOnlyToRecordedPosition ==
    [][ cur_token' < cur_token =>
          /\ Running /\ Top.fn = "while" /\ Top.pc \in {"body", "skip1"}
          /\ Top.at < Top.cond_pos
          /\ IF Top.pc = "body"
             THEN /\ Top.cond_pos <= cur_token' /\ cur_token' <= Top.body_pos
                  /\ Len(stack') > Len(stack) /\ status' = "running" => cur_token' = Top.body_pos
             ELSE /\ Top.cond_pos < Top.saved
                  /\ cur_token' = Top.saved ]_vars

\* the inner Mientras of a nested pair has rewound the cursor to its body for
\* a turn of its loop while the outer Mientras is in its body
C24_InnerLoopRewound ==
    /\ prog.fam = "nested_while" /\ status = "running" /\ Len(stack) >= 2
    /\ Top.fn = "stmt" /\ Top.pc = "start"
    /\ \E i, j \in DOMAIN stack :
          /\ i < j /\ j = Len(stack) - 1
          /\ stack[i].fn = "while" /\ stack[i].pc = "body"
          /\ stack[j].fn = "while" /\ stack[j].pc = "body"
          /\ stack[i].body_pos < stack[j].at
          /\ cur_token = stack[j].body_pos
    /\ \E k \in DOMAIN log : log[k].e = "stmt" /\ log[k].at = cur_token

(***************************************************************************)
(* set_symbol_value                                                        *)
(***************************************************************************)
\* what a call set_symbol_value(n, v) made in this step has done: n is in the
\* table, defined, with the value v, and get_symbol_value(n) returns v; a name
\* that was absent is the one new symbol; every other symbol is as it was.
\* Only a new name for a table of MAX_VARS symbols ends in the capacity error,
\* with the table unchanged.
SetEffect(n, v) ==
    IF Present(n) \/ Len(symtab) < MAX_VARS
    THEN /\ status' = "running" /\ err' = "none"
         /\ Len(symtab') = Len(symtab) + (IF Present(n) THEN 0 ELSE 1)
         /\ lookup_symbol(symtab', n) = (IF Present(n) THEN lookup_symbol(symtab, n) ELSE Len(symtab))
         /\ symtab'[lookup_symbol(symtab', n) + 1] = [name |-> n, value |-> v, is_defined |-> 1]
         /\ get_symbol_value(symtab', n) = [val |-> v, err |-> "none"]
         /\ \A i \in DOMAIN symtab : symtab[i].name # n => symtab'[i] = symtab[i]
    ELSE status' = "error" /\ err' = "capacity" /\ symtab' = symtab

ReadOnlyDiscarded ==
    \/ prog.untaken = "read" /\ prog.taken # "read"
    \/ prog.fam = "switch_dup"
    \/ prog.fam = "while0_read"

\* the values the run was started with that a program of ReadOnlyDiscarded
\* must still have
InputGiven == IF prog.fam = "while0_read" THEN <<In(4), In(5)>> ELSE <<In(8)>>

\* C26: the input changes only when parse_read_stmt executes a Leer, which
\* takes exactly the first remaining value and leaves its variable defined
\* with it; with no value or a malformed one the run ends in the input error
\* with table and input unchanged; a Leer that is passed over takes no value.
C26_LeerTakesOneValueInOrder ==
    /\ [](ReadOnlyDiscarded => input = InputGiven)
    /\ [][ /\ input' # input =>
                /\ Running /\ Top.fn = "read"
                /\ input # <<>> /\ Head(input).ok /\ input' = Tail(input)
                /\ status' = "running"
                /\ get_symbol_value(symtab', lexeme(cur_token + 2)) = [val |-> Head(input).n, err |-> "none"]
           /\ (Running /\ Top.fn = "read" /\ status' = "running") => input' # input
           /\ (Running /\ Top.fn = "read" /\ status' = "error") =>
                symtab' = symtab /\ input' = input /\ out' = out ]_vars

(***************************************************************************)
(* main(): init_lexer, tokenize_input, then cur_token = 0 and              *)
(* parse_program on the tokens the lexer made, then the OK line.  The run  *)
(* starts with the text of the file (prog.exp) and the values of stdin.    *)
(***************************************************************************)
\* texts with a string that is not closed, after a statement that prints:
\* closed by nothing before the end of the file, or only on the next line
UnterminatedTexts ==
    { Text(PrintW("1")) \o <<"\n">> \o Spell("Imprimir") \o <<"(", "\"", "h", "i", ")", ";">>,
      Text(PrintW("1")) \o <<"\n">> \o Spell("Imprimir") \o <<"(", "\"", "h", "\n", "i", "\"", ")", ";">>,
      Text(PrintW("1")) \o <<" ", "\"">> }

\* the files main is run on, with their stdin
MainFiles ==
    { [text |-> Text(p.src), inp |-> p.inp] :
          p \in SkipReadPrograms \cup NestedWhilePrograms \cup DeclPrograms \cup DupArmPrograms
                  \cup IfPrograms \cup ScenarioPrograms \cup FatalPrograms \cup ReadPrograms
                  \cup OtherPrograms \cup RunawayPrograms }
    \cup { [text |-> t, inp |-> <<>>] : t \in UnterminatedTexts \cup OperatorTexts }
    \cup { [text |-> Text(<<"Switch", "(", W(v), ")", "{", "Caso", "1", ":">> \o PrintW("1")
                             \o <<"Predeterminado", ":">> \o PrintW("0") \o <<"}">> \o PrintW("9")),
             inp |-> <<>>] : v \in 1..2 }

MainInit ==
    /\ \E f \in MainFiles :
          /\ prog = [fam |-> "file", exp |-> f.text, taken |-> "none", untaken |-> "none"]
          /\ input = f.inp
    /\ tokens = <<>>
    /\ cur_token = 0
    /\ symtab = <<>>
    /\ out = <<>>
    /\ stack = <<Frame("tokenize", 0)>>
    /\ status = "running"
    /\ err = "none"
    /\ log = <<>>

\* main.c lines 35-36 after tokenize_input() has returned
StartParse ==
    /\ status = "lexed"
    /\ status' = "running"
    /\ cur_token' = 0
    /\ stack' = <<Frame("main", 0), Frame("program", 0)>>
    /\ log' = <<>>
    /\ UNCHANGED <<tokens, symtab, out, input, prog, err>>

MainNext == Yylex \/ AddEof \/ StartParse \/ Next

MainSpec == MainInit /\ [][MainNext]_vars

\* C27: a string that is not closed before the end of its line or of the file
\* ends the run in the lexer with the lexical error, before parse_program is
\* called: nothing is written, no symbol exists, no input value is taken,
\* also when statements that print precede the string.
C27_UnterminatedStringStopsBeforeAnyStatement ==
    /\ (status = "error" /\ err = "string") =>
          /\ out = <<>> /\ symtab = <<>> /\ cur_token = 0
          /\ Top.fn = "tokenize"
          /\ \A i \in DOMAIN log : log[i].e = "tok"
    /\ (prog.exp \in UnterminatedTexts /\ status # "running") =>
          status = "error" /\ err = "string"

\* lexing has ended at an unclosed string after the tokens of Imprimir(1);
C27_StoppedAfterPrintTokens ==
    /\ prog.exp \in UnterminatedTexts
    /\ status = "error" /\ err = "string"
    /\ Len(tokens) >= 5 /\ tokens[1].type = "TOK_PRINT" /\ tokens[5].type = "TOK_SEMI"
    /\ out = <<>>

(***************************************************************************)
(* The evaluator of the single-file variant analyzer.c (src/unnamed/       *)
(* part_002), whose lexer makes '%' and '^' tokens of their own and whose  *)
(* grammar has a power level between <mul_expr> and <unary_expr>.  The     *)
(* relational and additive levels, <unary_expr> and <primary> read as in   *)
(* the modular variant; a result is [val, cur, err] as above.              *)
(***************************************************************************)
INT_MAX == 2147483647

\* the tokens of the words src in the variant: add_token(TOK_MOD, "%") and
\* add_token(TOK_POW, "^") where the modular lexer has TOK_UNKNOWN
analyzer_Lex(src) ==
    [i \in 1..(Len(src) + 1) |->
        IF i > Len(src) THEN [type |-> "TOK_EOF", lexeme |-> <<"E", "O", "F">>]
        ELSE IF src[i] = "%" THEN [type |-> "TOK_MOD", lexeme |-> <<"%">>]
        ELSE IF src[i] = "^" THEN [type |-> "TOK_POW", lexeme |-> <<"^">>]
        ELSE Tok(src[i])]

RECURSIVE pow_fits(_, _)

\* b to the power e >= 0 is a value of int
pow_fits(b, e) ==
    \/ e <= 1
    \/ b \in {-1, 0, 1}
    \/ /\ e <= 31
       /\ pow_fits(b, e - 1)
       /\ Abs(b ^ (e - 1)) <= INT_MAX \div Abs(b)

\* (int)pow(left, right): pow(x, 0) is 1 for every x; pow() of two small
\* integers is exact when the power is an integer, and 1 / left^(-right) otherwise, which the conversion
\* truncates to 0 unless left is 1 or -1; the conversion of a value outside
\* int (an overflowing power, or the infinity pow(0, negative) returns) is
\* undefined (C11 6.3.1.4)
c_pow(left, right) ==
    IF right = 0 THEN [val |-> 1, err |-> "none"]
    ELSE IF right > 0
    THEN IF pow_fits(left, right) THEN [val |-> left ^ right, err |-> "none"]
         ELSE [val |-> 0, err |-> "undefined"]
    ELSE IF left = 0 THEN [val |-> 0, err |-> "undefined"]
    ELSE IF left = 1 THEN [val |-> 1, err |-> "none"]
    ELSE IF left = -1 THEN [val |-> IF (-right) % 2 = 0 THEN 1 ELSE -1, err |-> "none"]
    ELSE [val |-> 0, err |-> "none"]

\* the power taken with its operands exchanged
pow_apply_swapped(left, r) ==
    IF r.err # "none" THEN r
    ELSE [val |-> c_pow(r.val, left).val, cur |-> r.cur, err |-> c_pow(r.val, left).err]

\* left = (int)pow(left, right); r is the right operand as parsed
pow_apply(left, r) ==
    IF r.err # "none" THEN r
    ELSE [val |-> c_pow(left, r.val).val, cur |-> r.cur, err |-> c_pow(left, r.val).err]

\* left * right, left / right or left % right with the tests for right == 0
analyzer_mul_apply(t, left, r) ==
    IF r.err # "none" THEN r
    ELSE IF t = "TOK_MULT" THEN Val(left * r.val, r.cur)
    ELSE IF t = "TOK_DIV"
    THEN IF r.val = 0 THEN [val |-> 0, cur |-> r.cur, err |-> "divzero"]
         ELSE Val(c_div(left, r.val), r.cur)
    ELSE IF r.val = 0 THEN [val |-> 0, cur |-> r.cur, err |-> "modzero"]
    ELSE Val(left - c_div(left, r.val) * r.val, r.cur)

RECURSIVE analyzer_parse_rel_expr(_, _), analyzer_rel_loop(_, _)
RECURSIVE analyzer_parse_add_expr(_, _), analyzer_add_loop(_, _)
RECURSIVE analyzer_parse_mul_expr(_, _), analyzer_mul_loop(_, _)
RECURSIVE parse_pow_expr(_, _), pow_loop(_, _)
RECURSIVE analyzer_parse_unary_expr(_, _), analyzer_parse_primary(_, _)

analyzer_parse_expr(cur, tab) == analyzer_parse_rel_expr(cur, tab)

analyzer_parse_primary(cur, tab) ==
    IF lookahead(cur) = "TOK_LPAREN" THEN primary_close(analyzer_parse_expr(cur + 1, tab))
    ELSE IF lookahead(cur) = "TOK_NUM" THEN Val(atoi(lexeme(cur)), cur + 1)
    ELSE IF lookahead(cur) = "TOK_IDENT" THEN primary_ident(get_symbol_value(tab, lexeme(cur)), cur)
    ELSE [val |-> 0, cur |-> cur, err |-> "syntax"]

analyzer_parse_unary_expr(cur, tab) ==
    IF lookahead(cur) = "TOK_MINUS" THEN negate(analyzer_parse_primary(cur + 1, tab))
    ELSE analyzer_parse_primary(cur, tab)

\* the while loop of parse_pow_expr with left = l.val and the cursor at l.cur
pow_loop(l, tab) ==
    IF l.err # "none" THEN l
    ELSE IF lookahead(l.cur) = "TOK_POW"
    THEN pow_loop(pow_apply(l.val, analyzer_parse_unary_expr(l.cur + 1, tab)), tab)
    ELSE l

parse_pow_expr(cur, tab) == pow_loop(analyzer_parse_unary_expr(cur, tab), tab)

analyzer_mul_loop(l, tab) ==
    IF l.err # "none" THEN l
    ELSE IF lookahead(l.cur) \in {"TOK_MULT", "TOK_DIV", "TOK_MOD"}
    THEN analyzer_mul_loop(analyzer_mul_apply(lookahead(l.cur), l.val,
                                              parse_pow_expr(l.cur + 1, tab)), tab)
    ELSE l

analyzer_parse_mul_expr(cur, tab) == analyzer_mul_loop(parse_pow_expr(cur, tab), tab)

analyzer_add_loop(l, tab) ==
    IF l.err # "none" THEN l
    ELSE IF lookahead(l.cur) \in {"TOK_PLUS", "TOK_MINUS"}
    THEN analyzer_add_loop(add_apply(lookahead(l.cur), l.val,
                                     analyzer_parse_mul_expr(l.cur + 1, tab)), tab)
    ELSE l

analyzer_parse_add_expr(cur, tab) == analyzer_add_loop(analyzer_parse_mul_expr(cur, tab), tab)

analyzer_rel_loop(l, tab) ==
    IF l.err # "none" THEN l
    ELSE IF lookahead(l.cur) \in RelOps
    THEN analyzer_rel_loop(rel_apply(lookahead(l.cur), l.val,
                                     analyzer_parse_add_expr(l.cur + 1, tab)), tab)
    ELSE l

analyzer_parse_rel_expr(cur, tab) == analyzer_rel_loop(analyzer_parse_add_expr(cur, tab), tab)

(***************************************************************************)
(* Expressions with '^' and '%' as trees, written out with the parentheses *)
(* the variant's grammar needs, and their values in integer arithmetic.    *)
(***************************************************************************)
PowOps == {"TOK_POW", "TOK_MULT", "TOK_DIV", "TOK_MOD", "TOK_PLUS"}

PowPairs == {Bin(op, l, r) : op \in PowOps, l \in Operands, r \in Operands}

PowExprs ==
    Operands \cup PowPairs \cup {Neg(e) : e \in PowPairs}
        \cup {Bin(op, l, r) : op \in PowOps, l \in PowPairs, r \in Thirds}
        \cup {Bin(op, l, r) : op \in PowOps, l \in Thirds, r \in PowPairs}

PowOpWord(op) == IF op = "TOK_POW" THEN "^" ELSE IF op = "TOK_MOD" THEN "%" ELSE OpWord(op)

\* additive 1 < multiplicative 2 < power 3 < unary 4 < primary 5
PowOpLevel(op) == IF op = "TOK_PLUS" THEN 1 ELSE IF op = "TOK_POW" THEN 3 ELSE 2

PowLevel(e) == IF e[1] = "num" THEN 5 ELSE IF e[1] = "neg" THEN 4 ELSE PowOpLevel(e[2])

RECURSIVE PowWords(_)

PowWords(e) ==
    IF e[1] = "num" THEN <<W(e[2])>>
    ELSE IF e[1] = "neg" THEN <<"-">> \o Side(PowWords(e[2]), PowLevel(e[2]), 5)
    ELSE Side(PowWords(e[3]), PowLevel(e[3]), PowOpLevel(e[2]))
             \o <<PowOpWord(e[2])>>
             \o Side(PowWords(e[4]), PowLevel(e[4]), PowOpLevel(e[2]) + 1)

RECURSIVE Power(_, _, _), PowEval(_)

\* acc multiplied n times by a, while the product is a value of int
Power(a, n, acc) ==
    IF n = 0 THEN Def(acc)
    ELSE IF Abs(acc) > INT_MAX \div Abs(a) THEN Undef
    ELSE Power(a, n - 1, acc * a)

\* the value of a op b; a power is defined for an exponent >= 0
PowApply(op, a, b) ==
    IF ~a.def \/ ~b.def THEN Undef
    ELSE IF op = "TOK_POW"
    THEN IF b.val < 0 THEN Undef
         ELSE IF a.val \in {-1, 0, 1} THEN Def(IF b.val % 2 = 0 /\ a.val = -1 THEN 1
                                               ELSE IF b.val = 0 THEN 1 ELSE a.val)
         ELSE IF b.val > 31 THEN Undef ELSE Power(a.val, b.val, 1)
    ELSE IF op = "TOK_MOD"
    THEN IF b.val = 0 THEN Undef ELSE Def(a.val - Quot(a.val, b.val) * b.val)
    ELSE Apply(op, a, b)

PowEval(e) ==
    IF e[1] = "num" THEN Def(e[2])
    ELSE IF e[1] = "neg" THEN Minus(PowEval(e[2]))
    ELSE PowApply(e[2], PowEval(e[3]), PowEval(e[4]))

\* parse_expr() of the variant is about to be called on the tokens of one
\* expression; prog.exp is the value of the tree the tokens were written from
PowInit ==
    /\ \E e \in PowExprs :
          /\ tokens = analyzer_Lex(PowWords(e))
          /\ prog = [fam |-> "pow", exp |-> PowEval(e), taken |-> "none", untaken |-> "none"]
    /\ cur_token = 0
    /\ symtab = <<>>
    /\ out = <<>>
    /\ input = <<>>
    /\ stack = <<Frame("expr", 0)>>
    /\ status = "running"
    /\ err = "none"
    /\ log = <<>>

\* one call of the variant's parse_expr(); an undefined conversion leaves any
\* int in the result, of which the least, zero and the greatest stand here
PowCall ==
    /\ At("expr", "start")
    /\ cur_token' = analyzer_parse_expr(cur_token, symtab).cur
    /\ err' = analyzer_parse_expr(cur_token, symtab).err
    /\ status' = IF err' \in {"none", "undefined"} THEN "returned" ELSE "error"
    /\ \E v \in IF err' = "undefined" THEN {-INT_MAX - 1, 0, INT_MAX}
                ELSE {analyzer_parse_expr(cur_token, symtab).val} :
          log' = Append(log, Ev("expr", "expr", cur_token, v))
    /\ stack' = <<>>
    /\ UNCHANGED <<tokens, symtab, out, input, prog>>

PowNext == PowCall

PowSpec == PowInit /\ [][PowNext]_vars

NoMientras == \A i \in DOMAIN tokens : tokens[i].type # "TOK_WHILE"

\* C29: a run on tokens without a Mientras token ends, with OK written or
\* with a fatal error, whether the tokens are well formed or not: no loop
\* that discards a statement goes on past the end of the input, so that the
\* cursor is beyond the end-of-input token only when the run has ended or
\* main is about to write OK.
C29_RunWithoutMientrasEnds ==
    (NoMientras /\ status = "running" /\ cur_token >= num_tokens) => Top.fn = "main"

(***************************************************************************)
(* Imprimir, Leer and assignment: effect after the last token              *)
(***************************************************************************)
SimpleKinds == {"print", "read", "assign"}

\* C30: an executed Imprimir, Leer or assignment writes, takes an input value
\* or touches the symbol table only in the step that has matched all its
\* tokens through the ';'.  A statement cut short ends the run in the syntax
\* error with nothing written, the input untouched and the symbol table as
\* the statements before it left it.
C30_EffectOnlyAfterLastToken ==
    [][/\ (Top.fn \in SimpleKinds /\ status = "running"
              /\ (out' # out \/ input' # input \/ symtab' # symtab)) =>
              /\ cur_token' = StmtEnd(Top.at)
              /\ lookahead(cur_token' - 1) = "TOK_SEMI"
              /\ err' \in {"none", "capacity"}
       /\ (prog.fam = "incomplete" /\ status' # "running") =>
              /\ status' = "error" /\ err' = "syntax"
              /\ out' = <<>> /\ input' = <<In(4)>>
              /\ symtab' = set_symbol_value(<<>>, <<"x">>, 1).tab]_vars

\* the run has ended in the syntax error at Leer ( z, before ')' and ';': the
\* value 4 is still in the input and z is in no symbol
C30_LeerCutShort ==
    /\ tokens = Lex(<<"Entero", "x", "=", "1", ";", "Leer", "(", "z">>)
    /\ status = "error" /\ err = "syntax"
    /\ input = <<In(4)>>
    /\ lookup_symbol(symtab, <<"z">>) < 0
    /\ out = <<>>

====
